---- MODULE Spec2Model ----
(***************************************************************************)
(* Model of the virtual hardware package                                   *)
(* (src/python/helpers/virtual_hardware): the device lifecycle and run     *)
(* loop (device.py, dte_device.py), the orchestrator registry              *)
(* (orchestrator.py) and the agent spawner (agent_spawner.py).             *)
(*                                                                         *)
(* Concurrency is asyncio's: a coroutine runs without interruption from    *)
(* one suspension point to the next, so each action below is one such      *)
(* segment of a coroutine.                                                 *)
(***************************************************************************)
EXTENDS Integers, Sequences, FiniteSets, TLC

\* ---- bounds ----
MaxDevices == 2        \* device objects ever constructed
MaxSends == 2          \* send_message calls in one behaviour
MaxLoops == 2          \* run-loop tasks alive on one device at a time
MaxAgents == 2         \* SpawnedAgent records ever created
MaxPool == 2           \* largest pool_size passed to spawn_agent_pool
MaxErrors == 2         \* failed initialize() calls counted on one device
MaxTargets == 2        \* target devices of a red-team campaign
MaxRedAgents == 2      \* agent_count of a red-team campaign
MaxCalls == 1          \* send_to_device and assign_task calls in one behaviour
MaxTerminations == 2   \* terminate_agent calls in flight together

Dev == 1..MaxDevices
Callers == 1..MaxSends   \* send_message calls, numbered in the order they are made
Loops == 1..MaxLoops
RedAgents == 1..MaxRedAgents
Agents == 1..MaxAgents
TerminateCalls == 1..MaxTerminations   \* terminate_agent calls followed step by step

\* Device ids: uuid4 of device object d is modelled as d itself (never equal
\* to another object's); SuppliedIds are the ids a caller may pass (0 stands
\* for "no id passed").
SuppliedIds == {-1}
DeviceIds == Dev \cup SuppliedIds

\* Message ids: the n-th send's uuid4 is n; SuppliedMsgIds are caller-chosen.
SuppliedMsgIds == {-1}
MsgIds == (1..MaxSends) \cup SuppliedMsgIds

\* DeviceState (device.py:16-24); "absent" is a device object not yet constructed.
UNINITIALIZED == "uninitialized"
INITIALIZING == "initializing"
READY == "ready"
RUNNING == "running"
SUSPENDED == "suspended"
ERROR == "error"
TERMINATED == "terminated"
DeviceState == {UNINITIALIZED, INITIALIZING, READY, RUNNING, SUSPENDED, ERROR, TERMINATED}

MsgTypes == {"inference", "command", "query", "unknown"}

\* A message: id, type, expect_response; seq numbers the send_message call that
\* queued it; bad says its payload makes the handler raise (max_tokens = "x").
NoMsg == [id |-> 0, type |-> "none", expect_response |-> FALSE, seq |-> 0, bad |-> FALSE]
NoResponse == [for |-> 0, status |-> "None"]

VARIABLES
    state,              \* d -> DeviceState or "absent"         (device.state)
    device_id,          \* d -> id                              (device.device_id)
    model_path,         \* d -> whether a model path is set     (DTEBareMetalDevice.model_path)
    model_loaded,       \* d -> BOOLEAN                         (DTEBareMetalDevice.model_loaded)
    hooked,             \* d -> on_state_change/on_error are set (orchestrator.py:67-68)
    message_queue,      \* d -> sequence of messages             (device.message_queue)
    response_handlers,  \* d -> [MsgIds -> caller or 0]          (device.response_handlers)
    error_count,        \* d -> metrics.error_count
    on_error_calls,     \* d -> number of calls of the on_error hook
    loops,              \* d -> [Loops -> run-loop task: pc and the message in hand]
    initPc,             \* d -> "idle" | "direct" | "spawn" | a boot stage: where an initialize() is suspended
    callers,            \* c -> the c-th send_message call: pc, device, message id, result
    nsent,              \* number of send_message calls so far
    devices,            \* id -> d or 0                          (orchestrator.devices)
    total_devices_created,
    shutdown,           \* the shutdown_all call: pc, the devices it made terminate()
                        \* coroutines for, those not yet run, those that raised
    spawned_agents,     \* a -> BOOLEAN: agent a is in spawner.spawned_agents
    agent,              \* a -> the SpawnedAgent record: device, pool membership
    total_spawned,
    total_terminated,
    spawnReq,           \* d -> the spawn_agent/spawn_device call constructing d
    pool,               \* the spawn_agent_pool call
    task_assignments,   \* a -> len(agent.task_assignments)
    cpu_utilization,    \* d -> metrics.cpu_utilization, in percent
    bcast,              \* the broadcast call
    pinf,               \* the parallel_inference call
    pte,                \* the parallel_task_execution call
    monitor,            \* the _monitor_elastic_pool task and its pool list
    initRes,            \* d -> how the last initialize() call made on d directly ended
    runtime_state,      \* d -> boot_stage and inference_ready of runtime_state
    stamped,            \* d -> the writes of the running initialize() to boot_stage and inference_ready
    payload,            \* c -> max_tokens of the message of the c-th send_message call
    metrics,            \* d -> the counters inference_count and tokens_processed
    campaign,           \* the run_campaign call: its position, its agents' result lists
    dos_responses,      \* how the requests of the denial-of-service attack on the current target ended
    terminations        \* c -> the c-th terminate_agent call: its agent, where it is, how it ended

vars == <<state, device_id, model_path, model_loaded, hooked, message_queue,
          response_handlers, error_count, on_error_calls, loops, initPc, callers,
          nsent, devices, total_devices_created, shutdown, spawned_agents, agent,
          total_spawned, total_terminated, spawnReq, pool, task_assignments,
          cpu_utilization, bcast, pinf, pte, monitor, initRes, runtime_state,
          stamped, payload, metrics, campaign, dos_responses, terminations>>

devVars == <<state, device_id, model_path, model_loaded, hooked, message_queue,
             response_handlers, error_count, on_error_calls, loops, initPc>>
msgVars == <<callers, nsent>>
orchVars == <<devices, total_devices_created, shutdown>>
spawnerVars == <<spawned_agents, agent, total_spawned, total_terminated, spawnReq, pool>>
extVars == <<initRes, runtime_state, stamped, payload, metrics, campaign, dos_responses,
             terminations>>
fanVars == <<task_assignments, cpu_utilization, bcast, pinf, pte, monitor, extVars>>

NoLoop == [pc |-> "none", msg |-> NoMsg]
IdleCaller == [pc |-> "idle", dev |-> 0, id |-> 0, seq |-> 0, expect |-> FALSE,
               consumed |-> 0, res |-> NoResponse]
NoAgent == [device |-> 0, pooled |-> FALSE, role |-> "none"]
NoReq == [kind |-> "none", pooled |-> FALSE]
IdlePool == [pc |-> "idle", n |-> 0, started |-> 0, done |-> 0, failed |-> 0,
             raised |-> 0, result |-> {}, agents0 |-> 0, devices0 |-> 0,
             spawned0 |-> 0, terminated0 |-> 0, role |-> "none"]
IdleShutdown == [pc |-> "idle", todo |-> {}, snap |-> {}, failed |-> {}]
IdleBcast == [pc |-> "idle", type |-> "none", size |-> 0, cur |-> 0,
              sent |-> [i \in DeviceIds |-> 0]]
IdlePinf == [pc |-> "idle", ids |-> {}, bad |-> FALSE,
             sent |-> [i \in DeviceIds |-> 0], notfound |-> {}]
IdlePte == [pc |-> "idle", role |-> "none", ntasks |-> 0, matching |-> {},
            calls |-> [t \in 1..MaxSends |-> 0]]
NoMonitor == [pc |-> "none", list |-> <<>>, max |-> 0, thr |-> 0, dev |-> 0]
\* A terminate_agent call that was not made.
NoTermination == [pc |-> "idle", agent |-> 0]
\* DTEBareMetalDevice.__init__: runtime_state as constructed.
NoRuntimeState == [boot_stage |-> "uninitialized", inference_ready |-> FALSE]
\* The max_tokens recorded for a send_message call that was not made.
NoTokens == 0
\* DeviceMetrics as constructed.
NoCounts == [inference_count |-> 0, tokens_processed |-> 0]
\* RedTeamOrchestrator as constructed: no agent, no campaign. pc is where
\* run_campaign is suspended, dev the target it is at, scen the scenario of the
\* catalog being executed, started the agents whose execute_all_scenarios was
\* called, results the local list of the current execute_all_scenarios call,
\* recorded the length of each agent's self.results.
IdleCampaign ==
    [pc |-> "idle", ndev |-> 0, nagents |-> 0, dev |-> 0, scen |-> 0, started |-> {},
     results |-> <<>>, total |-> 0, recorded |-> [a \in RedAgents |-> 0]]
\* No denial-of-service attack has run on the current target.
NoRequests == [exception |-> 0, none |-> 0, error |-> 0]

\* ------------------------------------------------------------------
\* Device lifecycle (device.py)
\* ------------------------------------------------------------------

\* initialize(): self.state = INITIALIZING, whatever the state was.
InitializeState(s) == INITIALIZING

\* initialize(): READY when _initialize_impl returned, ERROR when it raised.
InitializeResult(ok) == IF ok THEN READY ELSE ERROR

\* start(): only from READY.
StartState(s) == IF s = READY THEN RUNNING ELSE s

\* suspend(): only from RUNNING.
SuspendState(s) == IF s = RUNNING THEN SUSPENDED ELSE s

\* resume(): only from SUSPENDED.
ResumeState(s) == IF s = SUSPENDED THEN RUNNING ELSE s

\* terminate(): unconditional.
TerminateState(s) == TERMINATED

\* _handle_error: metrics.error_count += 1
ErrorCountAfter(n) == n + 1

\* _handle_error: the on_error hook is awaited when it is set.
HookCallsAfter(n, set) == IF set THEN n + 1 ELSE n

\* The first free run-loop task slot of device d (0 when none is free).
FreeLoop(d) ==
    IF \E l \in Loops : loops[d][l].pc = "none"
    THEN CHOOSE l \in Loops : /\ loops[d][l].pc = "none"
                              /\ \A k \in Loops : k < l => loops[d][k].pc # "none"
    ELSE 0

\* start(): asyncio.create_task(self._run_loop()) when the state was READY.
LoopsAfterStart(d, s) ==
    IF s = READY
    THEN [loops EXCEPT ![d][FreeLoop(d)] = [pc |-> "top", msg |-> NoMsg]]
    ELSE loops

\* initialize() up to its suspension in _initialize_impl (the boot stages sleep).
InitializeBegin(d) ==
    /\ state[d] # "absent"
    /\ initPc[d] = "idle"
    /\ state' = [state EXCEPT ![d] = InitializeState(@)]
    /\ initPc' = [initPc EXCEPT ![d] = "direct"]
    /\ UNCHANGED <<device_id, model_path, model_loaded, hooked, message_queue,
                   response_handlers, error_count, on_error_calls, loops>>
    /\ UNCHANGED <<msgVars, orchVars, spawnerVars>>
    /\ UNCHANGED fanVars

\* _boot_stage_4 runs, and sets model_loaded, only when a model path is set.
ModelLoadedAfterInit(d, ok) ==
    IF ok /\ model_path[d] THEN [model_loaded EXCEPT ![d] = TRUE] ELSE model_loaded

\* initialize() from the return of _initialize_impl to its own return.
InitializeEnd(d, ok) ==
    /\ initPc[d] = "direct"
    /\ ok \/ error_count[d] < MaxErrors
    /\ state' = [state EXCEPT ![d] = InitializeResult(ok)]
    /\ model_loaded' = ModelLoadedAfterInit(d, ok)
    /\ error_count' = [error_count EXCEPT ![d] = IF ok THEN @ ELSE ErrorCountAfter(@)]
    /\ on_error_calls' = [on_error_calls EXCEPT
                            ![d] = IF ok THEN @ ELSE HookCallsAfter(@, hooked[d])]
    /\ initPc' = [initPc EXCEPT ![d] = "idle"]
    /\ UNCHANGED <<device_id, model_path, hooked, message_queue, response_handlers, loops>>
    /\ UNCHANGED <<msgVars, orchVars, spawnerVars>>
    /\ UNCHANGED fanVars

Start(d) ==
    /\ state[d] # "absent"
    /\ state[d] = READY => FreeLoop(d) # 0
    /\ state' = [state EXCEPT ![d] = StartState(@)]
    /\ loops' = LoopsAfterStart(d, state[d])
    /\ UNCHANGED <<device_id, model_path, model_loaded, hooked, message_queue,
                   response_handlers, error_count, on_error_calls, initPc>>
    /\ UNCHANGED <<msgVars, orchVars, spawnerVars>>
    /\ UNCHANGED fanVars

Suspend(d) ==
    /\ state[d] # "absent"
    /\ state' = [state EXCEPT ![d] = SuspendState(@)]
    /\ UNCHANGED <<device_id, model_path, model_loaded, hooked, message_queue,
                   response_handlers, error_count, on_error_calls, loops, initPc>>
    /\ UNCHANGED <<msgVars, orchVars, spawnerVars>>
    /\ UNCHANGED fanVars

Resume(d) ==
    /\ state[d] # "absent"
    /\ state' = [state EXCEPT ![d] = ResumeState(@)]
    /\ UNCHANGED <<device_id, model_path, model_loaded, hooked, message_queue,
                   response_handlers, error_count, on_error_calls, loops, initPc>>
    /\ UNCHANGED <<msgVars, orchVars, spawnerVars>>
    /\ UNCHANGED fanVars

Terminate(d) ==
    /\ state[d] # "absent"
    /\ state' = [state EXCEPT ![d] = TerminateState(@)]
    /\ UNCHANGED <<device_id, model_path, model_loaded, hooked, message_queue,
                   response_handlers, error_count, on_error_calls, loops, initPc>>
    /\ UNCHANGED <<msgVars, orchVars, spawnerVars>>
    /\ UNCHANGED fanVars

\* ------------------------------------------------------------------
\* Message protocol (device.py: send_message, _run_loop, _process_message)
\* ------------------------------------------------------------------

\* message.get("id", str(uuid.uuid4())): the caller's id when it passed one
\* (supplied # 0), a fresh one otherwise.
MessageId(supplied) == IF supplied # 0 THEN supplied ELSE nsent + 1

\* Mutation of WaitsForResponse: the handle is allocated and awaited whatever
\* the flag says.
WaitsForResponse_Always(expect) == TRUE

\* send_message: "if message.get("expect_response", False):" - only then is a
\* future created, stored and awaited.
WaitsForResponse(expect) == expect

\* send_message up to its first suspension: the message is queued and, when a
\* response is expected, the future's set_result is stored under the message id.
\* (The device, its queue and handler map, and the call's own record.)
SendMessageBody(c, d, supplied, type, expect, bad) ==
    /\ nsent < MaxSends
    /\ c = nsent + 1
    /\ state[d] # "absent"
    /\ bad => type \in {"inference", "command"}
    /\ LET id == MessageId(supplied)
           m == [id |-> id, type |-> type, expect_response |-> expect,
                 seq |-> nsent + 1, bad |-> bad]
       IN /\ message_queue' = [message_queue EXCEPT ![d] = Append(@, m)]
          /\ response_handlers' =
                IF WaitsForResponse(expect) THEN [response_handlers EXCEPT ![d][id] = c]
                ELSE response_handlers
          /\ callers' = [callers EXCEPT ![c] =
                [pc |-> IF WaitsForResponse(expect) THEN "waiting" ELSE "returned",
                 dev |-> d, id |-> id,
                 seq |-> nsent + 1, expect |-> expect, consumed |-> 0,
                 res |-> NoResponse]]
    /\ nsent' = nsent + 1
    /\ UNCHANGED <<state, device_id, model_path, model_loaded, hooked, error_count,
                   on_error_calls, loops, initPc>>
    /\ UNCHANGED <<orchVars, spawnerVars>>

\* send_message called on the device directly.
SendMessage(c, d, supplied, type, expect, bad) ==
    /\ SendMessageBody(c, d, supplied, type, expect, bad)
    /\ UNCHANGED fanVars

\* send_message, the except branch: asyncio.wait_for timed out, and
\* del self.response_handlers[message_id] raises KeyError when the entry is gone.
CallerTimeout(c) ==
    /\ callers[c].pc = "waiting"
    /\ LET d == callers[c].dev
           id == callers[c].id
           h == response_handlers[d][id]
       IN /\ response_handlers' = [response_handlers EXCEPT ![d][id] = 0]
          /\ callers' =
               IF h = 0 THEN [callers EXCEPT ![c].pc = "raised"]
               ELSE IF h = c
                    THEN [callers EXCEPT ![c].pc = "returned", ![c].consumed = @ + 1]
                    ELSE [callers EXCEPT ![c].pc = "returned", ![h].consumed = @ + 1]
    /\ UNCHANGED <<state, device_id, model_path, model_loaded, hooked, message_queue,
                   error_count, on_error_calls, loops, initPc, nsent>>
    /\ UNCHANGED <<orchVars, spawnerVars>>
    /\ UNCHANGED fanVars

\* The response the handler of message m returns on device d (_process_message
\* dispatch; DTEBareMetalDevice._handle_inference / _handle_command; _handle_query).
HandlerResponse(d, m) ==
    [for |-> m.seq,
     status |-> CASE m.type = "inference" ->
                        IF model_loaded[d] THEN "success" ELSE "not_ready"
                  [] m.type = "command" -> "ok"
                  [] m.type = "query" -> "status"
                  [] OTHER -> "error"]

\* The handler of m raises: a bad payload reaches _simulate_inference (only when
\* the model is loaded) or a command's update.
HandlerRaises(d, m) ==
    /\ m.bad
    /\ \/ m.type = "command"
       \/ m.type = "inference" /\ model_loaded[d]

\* The handler of m suspends before it returns: _simulate_inference sleeps.
HandlerSuspends(d, m) ==
    m.type = "inference" /\ model_loaded[d] /\ ~m.bad

\* _process_message, lines 210-214: the response goes to the handler stored
\* under the message id, if any, and the entry is deleted.
DeliveredCallers(d, m) ==
    LET h == response_handlers[d][m.id]
    IN IF h = 0 THEN callers
       ELSE [callers EXCEPT ![h].pc = "returned", ![h].res = HandlerResponse(d, m),
                            ![h].consumed = @ + 1]

\* Mutation of LoopAfterError: the try block encloses the while loop, so a
\* handler exception ends the run loop.
LoopAfterError_Exits(l) == NoLoop

\* _run_loop after a handler exception: the except clause calls _handle_error
\* and the while loop goes on.
LoopAfterError(l) == [pc |-> "top", msg |-> NoMsg]

\* The rest of a loop iteration once message m is in hand and its handler has
\* run to its end: deliver the response and go to _device_work, or take the
\* except branch.
FinishMessage(d, l, m) ==
    IF HandlerRaises(d, m)
    THEN /\ error_count' = [error_count EXCEPT ![d] = ErrorCountAfter(@)]
         /\ on_error_calls' = [on_error_calls EXCEPT ![d] = HookCallsAfter(@, hooked[d])]
         /\ loops' = [loops EXCEPT ![d][l] = LoopAfterError(l)]
         /\ UNCHANGED <<response_handlers, callers>>
    ELSE /\ callers' = DeliveredCallers(d, m)
         /\ response_handlers' = [response_handlers EXCEPT ![d][m.id] = 0]
         /\ loops' = [loops EXCEPT ![d][l] = [pc |-> "top", msg |-> NoMsg]]
         /\ UNCHANGED <<error_count, on_error_calls>>

\* while self.state == DeviceState.RUNNING: evaluated when the task first runs,
\* after _device_work's sleep and after the except clause ("top" is a loop
\* suspended in any of the three, with the condition as its next step).
LoopCheck(d, l) ==
    /\ loops[d][l].pc = "top"
    /\ loops' = [loops EXCEPT ![d][l] =
                    IF state[d] = RUNNING THEN [pc |-> "wait", msg |-> NoMsg] ELSE NoLoop]
    /\ UNCHANGED <<state, device_id, model_path, model_loaded, hooked, message_queue,
                   response_handlers, error_count, on_error_calls, initPc>>
    /\ UNCHANGED <<msgVars, orchVars, spawnerVars>>
    /\ UNCHANGED fanVars

\* wait_for(self.message_queue.get(), timeout=1.0) times out on an empty queue.
LoopTimeoutBody(d, l) ==
    /\ loops[d][l].pc = "wait"
    /\ message_queue[d] = <<>>
    /\ loops' = [loops EXCEPT ![d][l] = [pc |-> "top", msg |-> NoMsg]]
    /\ UNCHANGED <<state, device_id, model_path, model_loaded, hooked, message_queue,
                   response_handlers, error_count, on_error_calls, initPc>>
    /\ UNCHANGED <<msgVars, orchVars, spawnerVars>>

\* The idle iteration where the cpu_utilization gauge is not followed.
LoopTimeout(d, l) ==
    /\ LoopTimeoutBody(d, l)
    /\ UNCHANGED fanVars

\* The idle iteration with DTEBareMetalDevice._device_work: the gauge becomes
\* min(95.0, inference_count * 0.5) or the idle 5.0. The inference count is
\* not part of the state, so the value u is an input from UtilLevels.
LoopTimeoutWork(d, l, u) ==
    /\ LoopTimeoutBody(d, l)
    /\ cpu_utilization' = [cpu_utilization EXCEPT ![d] = u]
    /\ UNCHANGED <<task_assignments, bcast, pinf, pte, monitor>>
    /\ UNCHANGED extVars

\* queue.get() returns a message and _process_message dispatches it to its
\* handler; the state is not looked at again before the dispatch.
LoopDequeue(d, l) ==
    /\ loops[d][l].pc = "wait"
    /\ message_queue[d] # <<>>
    /\ LET m == Head(message_queue[d])
       IN /\ message_queue' = [message_queue EXCEPT ![d] = Tail(@)]
          /\ IF HandlerSuspends(d, m)
             THEN /\ loops' = [loops EXCEPT ![d][l] = [pc |-> "handling", msg |-> m]]
                  /\ UNCHANGED <<response_handlers, callers, error_count, on_error_calls>>
             ELSE FinishMessage(d, l, m)
    /\ UNCHANGED <<state, device_id, model_path, model_loaded, hooked, initPc, nsent>>
    /\ UNCHANGED <<orchVars, spawnerVars>>
    /\ UNCHANGED fanVars

\* The suspended handler resumes and returns.
LoopHandlerDoneBody(d, l) ==
    /\ loops[d][l].pc = "handling"
    /\ FinishMessage(d, l, loops[d][l].msg)
    /\ UNCHANGED <<state, device_id, model_path, model_loaded, hooked, message_queue,
                   initPc, nsent>>
    /\ UNCHANGED <<orchVars, spawnerVars>>

\* The handler's return where the counters of DeviceMetrics are not followed.
LoopHandlerDone(d, l) ==
    /\ LoopHandlerDoneBody(d, l)
    /\ UNCHANGED fanVars

\* ------------------------------------------------------------------
\* Orchestrator (orchestrator.py) and spawner (agent_spawner.py)
\* ------------------------------------------------------------------

Registered == {devices[i] : i \in DeviceIds} \ {0}
ActiveAgents == {a \in Agents : spawned_agents[a]}
CreatedAgents == {a \in Agents : agent[a].device # 0}
PendingAgentSpawns == {d \in Dev : initPc[d] = "spawn" /\ spawnReq[d].kind = "agent"}

\* The next device object to be constructed (0 when the bound is reached).
FreeDev ==
    IF \E d \in Dev : state[d] = "absent"
    THEN CHOOSE d \in Dev : state[d] = "absent" /\ \A k \in Dev : k < d => state[k] # "absent"
    ELSE 0

\* The next SpawnedAgent record (its uuid4 agent_id).
FreeAgent ==
    IF \E a \in Agents : agent[a].device = 0
    THEN CHOOSE a \in Agents : agent[a].device = 0 /\ \A k \in Agents : k < a => agent[k].device # 0
    ELSE 0

\* VirtualHardwareDevice.__init__: self.device_id = device_id or str(uuid.uuid4())
NewDeviceId(d, supplied) == IF supplied # 0 THEN supplied ELSE d

\* spawn_device (entered directly, from spawn_agent, or from a spawn_agent_pool
\* member) up to the suspension of initialize() in the boot stages: the device
\* object is constructed and its state is INITIALIZING.
SpawnBeginBody(d, supplied, kind, pooled, mp) ==
    /\ d = FreeDev
    /\ d # 0
    /\ kind = "agent" =>
          /\ supplied = 0
          /\ ~mp
          /\ Cardinality(CreatedAgents) + Cardinality(PendingAgentSpawns) < MaxAgents
    /\ IF pooled
       THEN /\ kind = "agent"
            /\ pool.pc = "running"
            /\ pool.started < pool.n
            /\ pool' = [pool EXCEPT !.started = @ + 1]
       ELSE UNCHANGED pool
    /\ device_id' = [device_id EXCEPT ![d] = NewDeviceId(d, supplied)]
    /\ model_path' = [model_path EXCEPT ![d] = mp]
    /\ state' = [state EXCEPT ![d] = InitializeState(UNINITIALIZED)]
    /\ initPc' = [initPc EXCEPT ![d] = "spawn"]
    /\ spawnReq' = [spawnReq EXCEPT ![d] = [kind |-> kind, pooled |-> pooled]]
    /\ UNCHANGED <<model_loaded, hooked, message_queue, response_handlers, error_count,
                   on_error_calls, loops>>
    /\ UNCHANGED <<msgVars, orchVars>>
    /\ UNCHANGED <<spawned_agents, agent, total_spawned, total_terminated>>

SpawnBegin(d, supplied, kind, pooled, mp) ==
    /\ SpawnBeginBody(d, supplied, kind, pooled, mp)
    /\ UNCHANGED fanVars

\* _monitor_elastic_pool resumed by the return of its spawn_agent call for
\* device d: "if new_agent: pool.append(new_agent)", then the next sleep.
MonitorAfterSpawn(d, wrapped, a) ==
    IF monitor.pc = "spawning" /\ monitor.dev = d
    THEN [monitor EXCEPT !.pc = "sleep", !.dev = 0,
                         !.list = IF wrapped THEN Append(@, a) ELSE @]
    ELSE monitor

\* Mutation of SpawnRegisters: the result of initialize() is not looked at.
SpawnRegisters_Always(ok) == TRUE

\* spawn_device: "if not success: return None" - the device is registered and
\* started only when initialize() returned True.
SpawnRegisters(ok) == ok

\* AgentRole.
AgentRoles == {"inference_worker", "red_team_adversary", "cognitive_kernel",
               "pattern_matcher", "attention_allocator", "knowledge_integrator"}

\* _register_default_templates: the role of each registered template.
RoleOfTemplate(name) ==
    CASE name = "ggml_inference_worker" -> "inference_worker"
      [] name = "cognitive_kernel" -> "cognitive_kernel"
      [] name = "red_team_adversary" -> "red_team_adversary"
      [] name = "attention_allocator" -> "attention_allocator"

\* The role of the template that spawn_agent and spawn_agent_pool are called
\* with where no role is asked for ("ggml_inference_worker").
TemplateRole == RoleOfTemplate("ggml_inference_worker")

\* parallel_task_execution: template_map.get(role, "ggml_inference_worker").
TemplateForRole(role) ==
    CASE role = "inference_worker" -> "ggml_inference_worker"
      [] role = "cognitive_kernel" -> "cognitive_kernel"
      [] role = "red_team_adversary" -> "red_team_adversary"
      [] OTHER -> "ggml_inference_worker"

\* spawn_agent: role=template.role, the template being that of the pool for a
\* pool member.
SpawnedAgentRole(req) == IF req.pooled THEN pool.role ELSE TemplateRole

\* spawn_agent: "if not device: return None" - a SpawnedAgent is created only
\* for a device that spawn_device returned.
SpawnWraps(returned) == returned

\* Mutation of TotalSpawnedAfter: the counter is bumped before the device check.
TotalSpawnedAfter_Attempts(n, wrapped) == n + 1

\* spawn_agent: self.total_spawned += 1, after the agent is registered.
TotalSpawnedAfter(n, wrapped) == IF wrapped THEN n + 1 ELSE n

\* spawn_device from the return of _initialize_impl on, and the caller's
\* continuation (spawn_agent, the pool member): nothing in it suspends.
SpawnEnd(d, ok) ==
    /\ initPc[d] = "spawn"
    /\ LET s1 == InitializeResult(ok)
           reg == SpawnRegisters(ok)
           wrap == spawnReq[d].kind = "agent" /\ SpawnWraps(reg)
           a == FreeAgent
       IN /\ state' = [state EXCEPT ![d] = IF reg THEN StartState(s1) ELSE s1]
          /\ loops' = IF reg THEN LoopsAfterStart(d, s1) ELSE loops
          /\ devices' = IF reg THEN [devices EXCEPT ![device_id[d]] = d] ELSE devices
          /\ total_devices_created' = IF reg THEN total_devices_created + 1
                                      ELSE total_devices_created
          /\ hooked' = IF reg THEN [hooked EXCEPT ![d] = TRUE] ELSE hooked
          /\ error_count' = [error_count EXCEPT ![d] = IF ok THEN @ ELSE ErrorCountAfter(@)]
          /\ on_error_calls' = [on_error_calls EXCEPT
                                  ![d] = IF ok THEN @ ELSE HookCallsAfter(@, hooked[d])]
          /\ model_loaded' = ModelLoadedAfterInit(d, ok)
          /\ spawned_agents' = IF wrap THEN [spawned_agents EXCEPT ![a] = TRUE]
                               ELSE spawned_agents
          /\ agent' = IF wrap
                      THEN [agent EXCEPT ![a] = [device |-> d, pooled |-> spawnReq[d].pooled,
                                                 role |-> SpawnedAgentRole(spawnReq[d])]]
                      ELSE agent
          /\ total_spawned' = TotalSpawnedAfter(total_spawned, wrap)
          /\ pool' = IF spawnReq[d].pooled
                     THEN [pool EXCEPT !.done = @ + 1,
                                       !.failed = IF ok THEN @ ELSE @ + 1,
                                       !.result = IF wrap THEN @ \cup {a} ELSE @]
                     ELSE pool
    /\ initPc' = [initPc EXCEPT ![d] = "idle"]
    /\ spawnReq' = [spawnReq EXCEPT ![d] = NoReq]
    /\ UNCHANGED <<device_id, model_path, message_queue, response_handlers>>
    /\ UNCHANGED <<msgVars, shutdown, total_terminated>>
    /\ monitor' = MonitorAfterSpawn(d, spawnReq[d].kind = "agent" /\ SpawnWraps(SpawnRegisters(ok)),
                                    FreeAgent)
    /\ UNCHANGED <<task_assignments, cpu_utilization, bcast, pinf, pte>>
    /\ UNCHANGED extVars

\* terminate_device(id): the states after device.terminate() on the registered
\* device; unchanged for an unknown id.
StateAfterTerminateDevice(id) ==
    IF devices[id] = 0 THEN state
    ELSE [state EXCEPT ![devices[id]] = TerminateState(@)]

\* terminate_device(id): del self.devices[device_id].
DevicesAfterTerminateDevice(id) == [devices EXCEPT ![id] = 0]

TerminateDevice(id) ==
    /\ state' = StateAfterTerminateDevice(id)
    /\ devices' = DevicesAfterTerminateDevice(id)
    /\ UNCHANGED <<device_id, model_path, model_loaded, hooked, message_queue,
                   response_handlers, error_count, on_error_calls, loops, initPc>>
    /\ UNCHANGED <<msgVars, total_devices_created, shutdown, spawnerVars>>
    /\ UNCHANGED fanVars

\* A count of terminate_agent calls instead of terminations.
TotalTerminatedAfter_Calls(n, registered) == n + 1

\* terminate_agent: self.total_terminated += 1, after the record is deleted;
\* a call on an agent the registry does not hold leaves the counter.
TotalTerminatedAfter(n, registered) == IF registered THEN n + 1 ELSE n

\* terminate_agent(agent_id): the agent's device is terminated through the
\* orchestrator under its device id, the record deleted, the counter bumped.
TerminateAgentBody(a) ==
    /\ IF spawned_agents[a]
       THEN LET id == device_id[agent[a].device]
            IN /\ state' = StateAfterTerminateDevice(id)
               /\ devices' = DevicesAfterTerminateDevice(id)
               /\ spawned_agents' = [spawned_agents EXCEPT ![a] = FALSE]
               /\ total_terminated' = TotalTerminatedAfter(total_terminated, TRUE)
       ELSE /\ UNCHANGED <<state, devices, spawned_agents>>
            /\ total_terminated' = TotalTerminatedAfter(total_terminated, FALSE)
    /\ UNCHANGED <<device_id, model_path, model_loaded, hooked, message_queue,
                   response_handlers, error_count, on_error_calls, loops, initPc>>
    /\ UNCHANGED <<msgVars, total_devices_created, shutdown>>
    /\ UNCHANGED <<agent, total_spawned, spawnReq, pool>>

\* terminate_agent called on the spawner directly.
TerminateAgent(a) ==
    /\ TerminateAgentBody(a)
    /\ UNCHANGED fanVars

\* shutdown_all up to its await: one terminate() coroutine per registered
\* device. With an empty registry gather() returns a finished future, the await
\* does not suspend and the call returns at once.
ShutdownBegin ==
    /\ shutdown.pc \in {"idle", "returned"}
    /\ shutdown' = [pc |-> IF Registered = {} THEN "returned" ELSE "gather",
                    todo |-> Registered, snap |-> Registered, failed |-> {}]
    /\ UNCHANGED <<devVars, msgVars, devices, total_devices_created, spawnerVars>>
    /\ UNCHANGED fanVars

\* One of the gathered terminate() coroutines runs: the state is set, then the
\* on_state_change hook is awaited; when the hook raises (ok is FALSE) the
\* exception is the coroutine's outcome.
ShutdownTerminate(d, ok) ==
    /\ shutdown.pc = "gather"
    /\ d \in shutdown.todo
    /\ state' = [state EXCEPT ![d] = TerminateState(@)]
    /\ shutdown' = [shutdown EXCEPT !.todo = @ \ {d},
                                    !.failed = IF ok THEN @ ELSE @ \cup {d}]
    /\ UNCHANGED <<device_id, model_path, model_loaded, hooked, message_queue,
                   response_handlers, error_count, on_error_calls, loops, initPc>>
    /\ UNCHANGED <<msgVars, devices, total_devices_created, spawnerVars>>
    /\ UNCHANGED fanVars

\* Mutation of DevicesAfterShutdown: only the entries of the devices that were
\* terminated are deleted.
DevicesAfterShutdown_Terminated(snap) ==
    [i \in DeviceIds |-> IF devices[i] \in snap THEN 0 ELSE devices[i]]

\* self.devices.clear().
DevicesAfterShutdown(snap) == [i \in DeviceIds |-> 0]

\* shutdown_all after the gather, which with return_exceptions=True waits for
\* every coroutine and raises nothing: the registry is cleared and the call
\* returns.
ShutdownEnd ==
    /\ shutdown.pc = "gather"
    /\ shutdown.todo = {}
    /\ devices' = DevicesAfterShutdown(shutdown.snap)
    /\ shutdown' = [shutdown EXCEPT !.pc = "returned"]
    /\ UNCHANGED <<devVars, msgVars, total_devices_created, spawnerVars>>
    /\ UNCHANGED fanVars

\* The spawn_agent_pool call that has created its n spawn_agent tasks (with
\* the registry sizes and counters at the call).
NewPool(n) ==
    [pc |-> "running", n |-> n, started |-> 0, done |-> 0, failed |-> 0,
     raised |-> 0, result |-> {}, agents0 |-> Cardinality(ActiveAgents),
     devices0 |-> Cardinality(Registered), spawned0 |-> total_spawned,
     terminated0 |-> total_terminated, role |-> TemplateRole]

\* spawn_agent_pool(template, n) up to its await of the gathered spawn_agent calls.
PoolBegin(n) ==
    /\ pool.pc \in {"idle", "returned", "raised"}
    /\ pool.done = pool.n
    /\ n <= Cardinality({d \in Dev : state[d] = "absent"})
    /\ pool' = NewPool(n)
    /\ UNCHANGED <<devVars, msgVars, orchVars>>
    /\ UNCHANGED <<spawned_agents, agent, total_spawned, total_terminated, spawnReq>>
    /\ UNCHANGED fanVars

\* A spawn_agent call of the pool raises before a device exists: the device
\* type is not registered (orchestrator.py:51-52) or the device constructor
\* raises (orchestrator.py:55). The exception ends the member's task.
SpawnRaise ==
    /\ pool.pc = "running"
    /\ pool.started < pool.n
    /\ pool' = [pool EXCEPT !.started = @ + 1, !.done = @ + 1, !.raised = @ + 1]
    /\ UNCHANGED <<devVars, msgVars, orchVars, fanVars>>
    /\ UNCHANGED <<spawned_agents, agent, total_spawned, total_terminated, spawnReq>>

\* agents = await asyncio.gather(*tasks), without return_exceptions: the first
\* exception of a member is raised in spawn_agent_pool, which ends without
\* returning a list; when no member raised the await ends once all are done.
GatherOutcome(p) ==
    IF p.raised > 0 THEN "raised"
    ELSE IF p.done = p.n THEN "returned"
    ELSE "running"

\* spawn_agent_pool is resumed by the exception of a member; the members that
\* were started with it (all of them: the tasks are scheduled before the first
\* one runs) keep running and register their agents.
PoolRaise ==
    /\ pool.pc = "running"
    /\ pool.started = pool.n
    /\ GatherOutcome(pool) = "raised"
    /\ pool' = [pool EXCEPT !.pc = "raised"]
    /\ UNCHANGED <<devVars, msgVars, orchVars, fanVars>>
    /\ UNCHANGED <<spawned_agents, agent, total_spawned, total_terminated, spawnReq>>

\* spawn_agent_pool returns [a for a in agents if a is not None].
PoolReturn ==
    /\ pool.pc = "running"
    /\ GatherOutcome(pool) = "returned"
    /\ pool' = [pool EXCEPT !.pc = "returned"]
    /\ UNCHANGED <<devVars, msgVars, orchVars>>
    /\ UNCHANGED <<spawned_agents, agent, total_spawned, total_terminated, spawnReq>>
    /\ UNCHANGED fanVars

\* ------------------------------------------------------------------
\* Elastic pool (agent_spawner.py)
\* ------------------------------------------------------------------

\* DeviceMetrics.cpu_utilization before the first _device_work.
NoLoad == 0
\* _device_work: cpu_utilization = 5.0 with no inference counted.
IdleLoad == 5
\* _device_work: the cap of min(95.0, inference_count * 0.5).
FullLoad == 95
UtilLevels == {IdleLoad, FullLoad}

\* load_threshold * 100 for the default load_threshold = 0.8.
DefaultThreshold == 80

\* The agents of a set as a list, in the order of their records.
RECURSIVE AgentList(_)
AgentList(S) ==
    IF S = {} THEN <<>>
    ELSE LET a == CHOOSE x \in S : \A y \in S : x <= y
         IN <<a>> \o AgentList(S \ {a})

\* metrics.get("cpu_utilization", 0) of the device of agent a.
AgentLoad(a) == cpu_utilization[agent[a].device]

\* The positions of the pool list whose agent is still in spawned_agents.
LiveMembers(list) == {i \in 1..Len(list) : spawned_agents[list[i]]}

\* total_load over the positions in I.
RECURSIVE TotalLoad(_, _)
TotalLoad(list, I) ==
    IF I = {} THEN 0
    ELSE LET i == CHOOSE x \in I : TRUE
         IN AgentLoad(list[i]) + TotalLoad(list, I \ {i})

\* avg_load > load_threshold * 100, with avg_load = total_load / active_agents.
LoadHigh(list, thr) ==
    TotalLoad(list, LiveMembers(list)) > thr * Cardinality(LiveMembers(list))

\* avg_load < (load_threshold * 0.5) * 100.
LoadLow(list, thr) ==
    2 * TotalLoad(list, LiveMembers(list)) < thr * Cardinality(LiveMembers(list))

\* min(pool, key=cpu_utilization): the first position of the list with the
\* least gauge, over all members of the list, registered or not.
LeastLoaded(list) ==
    CHOOSE i \in 1..Len(list) :
        /\ \A j \in 1..Len(list) : AgentLoad(list[i]) <= AgentLoad(list[j])
        /\ \A j \in 1..(i - 1) : AgentLoad(list[j]) > AgentLoad(list[i])

\* pool.remove(agent_to_remove).
WithoutMember(list, i) == SubSeq(list, 1, i - 1) \o SubSeq(list, i + 1, Len(list))

\* spawn_elastic_pool(template, min_agents, max_agents) up to its await of
\* spawn_agent_pool(template, min_agents). The two numbers are not compared.
ElasticBegin(min, max) ==
    /\ monitor.pc = "none"
    /\ pool.pc = "idle"
    /\ min <= Cardinality({d \in Dev : state[d] = "absent"})
    /\ pool' = NewPool(min)
    /\ monitor' = [NoMonitor EXCEPT !.pc = "starting", !.max = max, !.thr = DefaultThreshold]
    /\ UNCHANGED <<devVars, msgVars, orchVars>>
    /\ UNCHANGED <<spawned_agents, agent, total_spawned, total_terminated, spawnReq>>
    /\ UNCHANGED <<task_assignments, cpu_utilization, bcast, pinf, pte>>
    /\ UNCHANGED extVars

\* spawn_agent_pool returns the initial pool; the monitor task is created on
\* that list and spawn_elastic_pool returns it. The task's first step is the
\* sleep.
ElasticStart ==
    /\ monitor.pc = "starting"
    /\ GatherOutcome(pool) = "returned"
    /\ pool' = [pool EXCEPT !.pc = "returned"]
    /\ monitor' = [monitor EXCEPT !.pc = "sleep", !.list = AgentList(pool.result)]
    /\ UNCHANGED <<devVars, msgVars, orchVars>>
    /\ UNCHANGED <<spawned_agents, agent, total_spawned, total_terminated, spawnReq>>
    /\ UNCHANGED <<task_assignments, cpu_utilization, bcast, pinf, pte>>
    /\ UNCHANGED extVars

\* A poll that goes on with no registered member.
PollBranch_NoExit(m) ==
    IF LoadHigh(m.list, m.thr) /\ Len(m.list) < m.max THEN "up"
    ELSE IF LoadLow(m.list, m.thr) /\ Len(m.list) > 1 THEN "down"
    ELSE "none"

\* The branch one poll of the monitor takes.
PollBranch(m) ==
    IF LiveMembers(m.list) = {} THEN "exit"
    ELSE IF LoadHigh(m.list, m.thr) /\ Len(m.list) < m.max THEN "up"
    ELSE IF LoadLow(m.list, m.thr) /\ Len(m.list) > 1 THEN "down"
    ELSE "none"

\* One poll of _monitor_elastic_pool: from the end of the sleep to the next
\* suspension (the next sleep, or initialize() inside spawn_agent).
MonitorPoll ==
    /\ monitor.pc = "sleep"
    /\ PollBranch(monitor) # "none"
    /\ CASE PollBranch(monitor) = "exit" ->
              /\ monitor' = [monitor EXCEPT !.pc = "done"]
              /\ UNCHANGED <<devVars, msgVars, orchVars, spawnerVars>>
         [] PollBranch(monitor) = "up" ->
              /\ SpawnBeginBody(FreeDev, 0, "agent", FALSE, FALSE)
              /\ monitor' = [monitor EXCEPT !.pc = "spawning", !.dev = FreeDev]
         [] PollBranch(monitor) = "down" ->
              /\ TerminateAgentBody(monitor.list[LeastLoaded(monitor.list)])
              /\ monitor' = [monitor EXCEPT
                                !.list = WithoutMember(@, LeastLoaded(monitor.list))]
    /\ UNCHANGED <<task_assignments, cpu_utilization, bcast, pinf, pte>>
    /\ UNCHANGED extVars

\* ------------------------------------------------------------------
\* Fan-out over the message protocol (orchestrator.py)
\* ------------------------------------------------------------------

\* parallel_inference, device_ids is None: the ids of the registered devices
\* that are RUNNING (all devices are of type BARE_METAL_DTE).
DefaultInferenceIds ==
    {i \in DeviceIds : devices[i] # 0 /\ state[devices[i]] = RUNNING}

\* parallel_inference up to its await of asyncio.gather: the id list is fixed
\* and one send_to_device task per id is created; "if not device_ids" returns
\* the error record at once. bad: the inference parameters make the handler
\* of a device with a loaded model raise.
PinfBegin(ids, default, bad) ==
    /\ pinf.pc \in {"idle", "returned"}
    /\ LET requested == IF default THEN DefaultInferenceIds ELSE ids
       IN /\ Cardinality(requested) <= MaxSends - nsent
          /\ pinf' = [pc |-> IF requested = {} THEN "returned" ELSE "gather",
                      ids |-> requested, bad |-> bad,
                      sent |-> [i \in DeviceIds |-> 0], notfound |-> {}]
    /\ UNCHANGED <<devVars, msgVars, orchVars, spawnerVars>>
    /\ UNCHANGED <<task_assignments, cpu_utilization, bcast, pte, monitor>>
    /\ UNCHANGED extVars

\* One gathered send_to_device(id, message.copy()) task up to its suspension:
\* the error record for an id that is not registered, send_message otherwise.
PinfSend(id) ==
    /\ pinf.pc = "gather"
    /\ id \in pinf.ids
    /\ pinf.sent[id] = 0
    /\ id \notin pinf.notfound
    /\ IF devices[id] = 0
       THEN /\ pinf' = [pinf EXCEPT !.notfound = @ \cup {id}]
            /\ UNCHANGED <<devVars, msgVars, orchVars, spawnerVars>>
       ELSE /\ SendMessageBody(nsent + 1, devices[id], 0, "inference", TRUE, pinf.bad)
            /\ pinf' = [pinf EXCEPT !.sent[id] = nsent + 1]
    /\ UNCHANGED <<task_assignments, cpu_utilization, bcast, pte, monitor>>
    /\ UNCHANGED extVars

\* The outcome gather(..., return_exceptions=True) collected for id: the
\* not-found record, the response, None after a timeout, or the exception
\* send_message raised.
PinfOutcome(id) ==
    IF id \in pinf.notfound THEN "not_found"
    ELSE IF pinf.sent[id] = 0 THEN "pending"
    ELSE LET c == callers[pinf.sent[id]]
         IN IF c.pc = "waiting" THEN "pending"
            ELSE IF c.pc = "raised" THEN "exception"
            ELSE c.res.status

\* parallel_inference after the gather: every task ended; the responses are
\* zipped with the ids into the result.
PinfReturn ==
    /\ pinf.pc = "gather"
    /\ \A id \in pinf.ids : PinfOutcome(id) # "pending"
    /\ pinf' = [pinf EXCEPT !.pc = "returned"]
    /\ UNCHANGED <<devVars, msgVars, orchVars, spawnerVars>>
    /\ UNCHANGED <<task_assignments, cpu_utilization, bcast, pte, monitor>>
    /\ UNCHANGED extVars

\* The record returned for an id that is not in the registry:
\* {"error": "Device not found: ..."} and {"error": "Agent not found"}.
NotFound == [for |-> 0, status |-> "not_found"]

\* A call that ended at the registry lookup, without a send_message.
NotFoundCall == [pc |-> "returned", dev |-> 0, id |-> 0, seq |-> 0, expect |-> FALSE,
                 consumed |-> 0, res |-> NotFound]

\* terminate_device: "if device_id not in self.devices: return False".
TerminateDeviceResult(id) == devices[id] # 0

\* terminate_agent: "if agent_id not in self.spawned_agents: return False".
TerminateAgentResult(a) == spawned_agents[a]

\* send_to_device(id, message) up to its first suspension: the error record
\* for an unknown id, device.send_message(message) otherwise.
SendToDevice(id, type, expect, bad) ==
    /\ nsent < MaxSends
    /\ IF devices[id] = 0
       THEN /\ callers' = [callers EXCEPT ![nsent + 1] = NotFoundCall]
            /\ nsent' = nsent + 1
            /\ UNCHANGED <<devVars, orchVars, spawnerVars>>
       ELSE SendMessageBody(nsent + 1, devices[id], 0, type, expect, bad)
    /\ UNCHANGED fanVars

\* assign_task: "type": "inference" if the role is INFERENCE_WORKER else "command".
TaskMessageType(role) == IF role = "inference_worker" THEN "inference" ELSE "command"

\* task_params without a "type" and without an "expect_response" key. A key
\* that is not in the dict is "absent".
NoParams == [type |-> "absent", expect_response |-> "absent"]

\* The task_params followed: the two keys absent or set by the caller
\* ("type": "query", "expect_response": False).
TaskParams == [type : {"absent", "query"}, expect_response : {"absent", "false"}]

\* assign_task: the message {"type": ..., "task": ..., "expect_response": True,
\* **task_params}; the keys of task_params come last and replace the fixed ones.
TaskMessage(role, params) ==
    [type |-> IF params.type = "absent" THEN TaskMessageType(role) ELSE params.type,
     expect_response |-> IF params.expect_response = "absent" THEN TRUE
                         ELSE params.expect_response = "true"]

\* Mutation of TaskLogAfterAssign: the description is logged before the lookup.
TaskLogAfterAssign_Always(a, known) == [task_assignments EXCEPT ![a] = @ + 1]

\* assign_task: agent.task_assignments.append(task_description), after the
\* lookup of the agent id succeeded.
TaskLogAfterAssign(a, known) ==
    IF known THEN [task_assignments EXCEPT ![a] = @ + 1] ELSE task_assignments

\* assign_task(agent_id, description, params) up to its first suspension: the
\* error record for an unknown agent id; otherwise the description is logged
\* and the task message is sent to the agent's device, expecting a response.
AssignTaskBody(a, bad, params) ==
    /\ nsent < MaxSends
    /\ task_assignments' = TaskLogAfterAssign(a, spawned_agents[a])
    /\ IF ~spawned_agents[a]
       THEN /\ callers' = [callers EXCEPT ![nsent + 1] = NotFoundCall]
            /\ nsent' = nsent + 1
            /\ UNCHANGED <<devVars, orchVars, spawnerVars>>
       ELSE SendMessageBody(nsent + 1, agent[a].device, 0,
                            TaskMessage(agent[a].role, params).type,
                            TaskMessage(agent[a].role, params).expect_response, bad)

\* assign_task called on the spawner directly.
AssignTask(a, bad) ==
    /\ AssignTaskBody(a, bad, NoParams)
    /\ UNCHANGED <<cpu_utilization, bcast, pinf, pte, monitor>>
    /\ UNCHANGED extVars

\* assign_task called with task_params that may hold the keys of the message.
AssignTaskWith(a, params) ==
    /\ AssignTaskBody(a, FALSE, params)
    /\ UNCHANGED <<cpu_utilization, bcast, pinf, pte, monitor>>
    /\ UNCHANGED extVars

\* The k-th agent (k = 0, 1, ...) of the list matching_agents, whose order is
\* that of the agent records.
NthAgent(S, k) == CHOOSE a \in S : Cardinality({b \in S : b < a}) = k

\* matching_agents[i % len(matching_agents)] for task number i (from 1):
\* ZeroDivisionError on an empty list.
AgentForTask(S, i) == NthAgent(S, (i - 1) % Cardinality(S))

\* parallel_task_execution from the list of matching agents on, up to its
\* await of asyncio.gather: one assign_task coroutine per task, round robin;
\* the modulo raises ZeroDivisionError when there are tasks and no agent.
PteDistributed(role, ntasks, matching) ==
    [pc |-> IF ntasks > 0 /\ matching = {} THEN "raised"
            ELSE IF ntasks = 0 THEN "returned"
            ELSE "gather",
     role |-> role, ntasks |-> ntasks, matching |-> matching,
     calls |-> [t \in 1..MaxSends |-> 0]]

\* parallel_task_execution: the registered agents whose role is the one asked for.
MatchingAgents(role) == {a \in ActiveAgents : agent[a].role = role}

\* parallel_task_execution(role, tasks) up to its first suspension: with agents
\* of the role registered the tasks are distributed at once; with none,
\* spawn_agent_pool(template, len(tasks)) is awaited.
PteBegin(role, ntasks) ==
    /\ pte.pc \in {"idle", "returned", "raised"}
    /\ pool.pc \in {"idle", "returned"}
    /\ ntasks <= MaxSends - nsent
    /\ IF MatchingAgents(role) # {}
       THEN /\ pte' = PteDistributed(role, ntasks, MatchingAgents(role))
            /\ UNCHANGED pool
       ELSE /\ ntasks <= Cardinality({d \in Dev : state[d] = "absent"})
            /\ ntasks <= Cardinality(Agents \ CreatedAgents)
            /\ pte' = [IdlePte EXCEPT !.pc = "spawning", !.role = role, !.ntasks = ntasks]
            /\ pool' = [NewPool(ntasks) EXCEPT !.role = RoleOfTemplate(TemplateForRole(role))]
    /\ UNCHANGED <<devVars, msgVars, orchVars>>
    /\ UNCHANGED <<spawned_agents, agent, total_spawned, total_terminated, spawnReq>>
    /\ UNCHANGED <<task_assignments, cpu_utilization, bcast, pinf, monitor>>
    /\ UNCHANGED extVars

\* spawn_agent_pool has returned its list to parallel_task_execution, which
\* distributes the tasks over it.
PteDistribute ==
    /\ pte.pc = "spawning"
    /\ GatherOutcome(pool) = "returned"
    /\ pool' = [pool EXCEPT !.pc = "returned"]
    /\ pte' = PteDistributed(pte.role, pte.ntasks, pool.result)
    /\ UNCHANGED <<devVars, msgVars, orchVars>>
    /\ UNCHANGED <<spawned_agents, agent, total_spawned, total_terminated, spawnReq>>
    /\ UNCHANGED <<task_assignments, cpu_utilization, bcast, pinf, monitor>>
    /\ UNCHANGED extVars

\* The gathered assign_task of task t runs up to its suspension.
PteAssign(t) ==
    /\ pte.pc = "gather"
    /\ t \in 1..pte.ntasks
    /\ pte.calls[t] = 0
    /\ AssignTaskBody(AgentForTask(pte.matching, t), FALSE, NoParams)
    /\ pte' = [pte EXCEPT !.calls[t] = nsent + 1]
    /\ UNCHANGED <<cpu_utilization, bcast, pinf, monitor>>
    /\ UNCHANGED extVars

\* The outcome gather(..., return_exceptions=True) collected for task t.
PteOutcome(t) ==
    IF pte.calls[t] = 0 THEN "pending"
    ELSE LET c == callers[pte.calls[t]]
         IN IF c.pc = "waiting" THEN "pending"
            ELSE IF c.pc = "raised" THEN "exception"
            ELSE c.res.status

\* parallel_task_execution returns the gathered results, in task order.
PteReturn ==
    /\ pte.pc = "gather"
    /\ \A t \in 1..pte.ntasks : PteOutcome(t) # "pending"
    /\ pte' = [pte EXCEPT !.pc = "returned"]
    /\ UNCHANGED <<devVars, msgVars, orchVars, spawnerVars>>
    /\ UNCHANGED <<task_assignments, cpu_utilization, bcast, pinf, monitor>>
    /\ UNCHANGED extVars

\* The keys of orchestrator.devices.
RegKeys == {i \in DeviceIds : devices[i] # 0}

\* The key the dict iterator of broadcast yields next: the first key not yet
\* visited (keys are taken in ascending order, the order in which generated
\* ids are registered), 0 when the iterator is exhausted.
NextKey(visited) ==
    LET rest == RegKeys \ visited
    IN IF rest = {} THEN 0
       ELSE CHOOSE i \in rest : \A j \in rest : i <= j

\* The position of key i in the iteration order.
KeyRank(i) == Cardinality({j \in RegKeys : j <= i})

\* next() on the iterator of self.devices.items(): RuntimeError ("dictionary
\* changed size during iteration") when the size differs from the one at the
\* start of the loop, the next key otherwise.
BcastStep(b, visited) ==
    IF Cardinality(RegKeys) # b.size THEN "raised"
    ELSE IF NextKey(visited) = 0 THEN "returned"
    ELSE "waiting"

\* broadcast(message) with expect_response = true, from the call to its first
\* suspension: the for loop starts on the live registry, and the message is
\* sent to the first device, whose response is awaited inside the loop.
BcastBegin(type) ==
    /\ bcast.pc \in {"idle", "returned", "raised"}
    /\ Cardinality(RegKeys) <= MaxSends - nsent
    /\ LET k == NextKey({})
       IN IF k = 0
          THEN /\ bcast' = [IdleBcast EXCEPT !.pc = "returned", !.type = type]
               /\ UNCHANGED <<devVars, msgVars, orchVars, spawnerVars>>
          ELSE /\ SendMessageBody(nsent + 1, devices[k], 0, type, TRUE, FALSE)
               /\ bcast' = [pc |-> "waiting", type |-> type,
                            size |-> Cardinality(RegKeys), cur |-> k,
                            sent |-> [i \in DeviceIds |-> IF i = k THEN nsent + 1 ELSE 0]]
    /\ UNCHANGED <<task_assignments, cpu_utilization, pinf, pte, monitor>>
    /\ UNCHANGED extVars

\* broadcast is resumed by the end of the send_message it awaits
\* (results[device_id] = response, or the exception of send_message), asks the
\* iterator for the next device and sends to it.
BcastNext ==
    /\ bcast.pc = "waiting"
    /\ callers[bcast.sent[bcast.cur]].pc \in {"returned", "raised"}
    /\ LET visited == {i \in DeviceIds : bcast.sent[i] # 0}
           step == IF callers[bcast.sent[bcast.cur]].pc = "raised" THEN "raised"
                   ELSE BcastStep(bcast, visited)
           k == NextKey(visited)
       IN IF step = "waiting"
          THEN /\ SendMessageBody(nsent + 1, devices[k], 0, bcast.type, TRUE, FALSE)
               /\ bcast' = [bcast EXCEPT !.cur = k, !.sent[k] = nsent + 1]
          ELSE /\ bcast' = [bcast EXCEPT !.pc = step]
               /\ UNCHANGED <<devVars, msgVars, orchVars, spawnerVars>>
    /\ UNCHANGED <<task_assignments, cpu_utilization, pinf, pte, monitor>>
    /\ UNCHANGED extVars

\* broadcast(message) with expect_response = false: no send_message suspends,
\* so the whole loop runs at once; every registered device gets the message
\* and every result is None.
BcastNoWait(type) ==
    /\ bcast.pc \in {"idle", "returned", "raised"}
    /\ Cardinality(RegKeys) <= MaxSends - nsent
    /\ message_queue' = [d \in Dev |->
          IF \E i \in RegKeys : devices[i] = d
          THEN LET i == CHOOSE j \in RegKeys : devices[j] = d
               IN Append(message_queue[d],
                         [id |-> nsent + KeyRank(i), type |-> type,
                          expect_response |-> FALSE, seq |-> nsent + KeyRank(i),
                          bad |-> FALSE])
          ELSE message_queue[d]]
    /\ callers' = [c \in Callers |->
          IF \E i \in RegKeys : nsent + KeyRank(i) = c
          THEN LET i == CHOOSE j \in RegKeys : nsent + KeyRank(j) = c
               IN [pc |-> "returned", dev |-> devices[i], id |-> c, seq |-> c,
                   expect |-> FALSE, consumed |-> 0, res |-> NoResponse]
          ELSE callers[c]]
    /\ nsent' = nsent + Cardinality(RegKeys)
    /\ bcast' = [pc |-> "returned", type |-> type, size |-> Cardinality(RegKeys),
                 cur |-> 0,
                 sent |-> [i \in DeviceIds |-> IF i \in RegKeys THEN nsent + KeyRank(i) ELSE 0]]
    /\ UNCHANGED <<state, device_id, model_path, model_loaded, hooked, response_handlers,
                   error_count, on_error_calls, loops, initPc>>
    /\ UNCHANGED <<orchVars, spawnerVars>>
    /\ UNCHANGED <<task_assignments, cpu_utilization, pinf, pte, monitor>>
    /\ UNCHANGED extVars

\* ------------------------------------------------------------------
\* Boot stages (dte_device.py: _initialize_impl, _boot_stage_0 .. _boot_stage_4)
\* ------------------------------------------------------------------

\* The boot_stage values the stages write, in the order _initialize_impl
\* calls them.
BootStages == <<"uefi_boot", "cpu_memory_init", "nvme_init", "ggml_init", "model_load">>

\* Mutation of DueStages: _boot_stage_4 is called whether a model path is set
\* or not.
DueStages_All(mp) == BootStages

\* _initialize_impl: stages 0 to 3 always, "if self.model_path:" stage 4.
DueStages(mp) == IF mp THEN BootStages ELSE SubSeq(BootStages, 1, 4)

\* The stage being run is the k-th due one: the value of k.
StageIndex(due, st) == CHOOSE k \in 1..Len(due) : due[k] = st

\* After its sleep a stage evaluates expressions over self.capabilities and
\* self.ggml_config (the memory arithmetic of stages 0 and 3, cpu_cores in
\* stage 1, the dictionary lookups of stage 4), which raise when the value is
\* not what the expression needs; stage 2 only stores literals.
StageCanFail(st) == st # "nvme_init"

\* _handle_error: "await self.on_error(error)" is not guarded, so an on_error
\* hook that raises ends initialize() with that exception.
InitializeReturn(hookSet, errOk) == IF hookSet /\ ~errOk THEN "raised" ELSE "false"

\* initialize() up to the sleep of _boot_stage_0: the state is INITIALIZING and
\* the first marker is written.
BootBegin(d) ==
    /\ state[d] # "absent"
    /\ initPc[d] = "idle"
    /\ state' = [state EXCEPT ![d] = InitializeState(@)]
    /\ initPc' = [initPc EXCEPT ![d] = BootStages[1]]
    /\ runtime_state' = [runtime_state EXCEPT ![d].boot_stage = BootStages[1]]
    /\ stamped' = [stamped EXCEPT ![d] = <<BootStages[1]>>]
    /\ initRes' = [initRes EXCEPT ![d] = "running"]
    /\ UNCHANGED <<device_id, model_path, model_loaded, hooked, message_queue,
                   response_handlers, error_count, on_error_calls, loops>>
    /\ UNCHANGED <<msgVars, orchVars, spawnerVars>>
    /\ UNCHANGED <<task_assignments, cpu_utilization, bcast, pinf, pte, monitor>>
    /\ UNCHANGED <<payload, metrics, campaign, dos_responses, terminations>>

\* initialize() from the end of one stage's sleep to the next suspension or to
\* its return. ok: the rest of the stage runs without raising; notifyOk: no
\* on_state_change hook is set, or the one that is set returns; errOk: the
\* on_error hook, called when hooked[d], returns.
BootStep(d, ok, notifyOk, errOk) ==
    /\ initPc[d] \notin {"idle", "direct", "spawn"}
    /\ LET st == initPc[d]
           due == DueStages(model_path[d])
           k == StageIndex(due, st)
           last == k = Len(due)
           done == ok /\ last
           ready == done /\ notifyOk
           failed == ~ok \/ (done /\ ~ready)
       IN /\ ~ok => StageCanFail(st)
          /\ failed => error_count[d] < MaxErrors
          /\ model_loaded' =
                IF ok /\ st = "model_load" THEN [model_loaded EXCEPT ![d] = TRUE]
                ELSE model_loaded
          /\ runtime_state' =
                IF ok /\ ~last THEN [runtime_state EXCEPT ![d].boot_stage = due[k + 1]]
                ELSE IF done THEN [runtime_state EXCEPT ![d].inference_ready = TRUE]
                ELSE runtime_state
          /\ stamped' = IF ok /\ ~last THEN [stamped EXCEPT ![d] = Append(@, due[k + 1])]
                        ELSE IF done THEN [stamped EXCEPT ![d] = Append(@, "inference_ready")]
                        ELSE stamped
          /\ initPc' = [initPc EXCEPT ![d] = IF ok /\ ~last THEN due[k + 1] ELSE "idle"]
          /\ state' = IF ok /\ ~last THEN state
                      ELSE [state EXCEPT ![d] = InitializeResult(ready)]
          /\ error_count' = [error_count EXCEPT
                                ![d] = IF failed THEN ErrorCountAfter(@) ELSE @]
          /\ on_error_calls' = [on_error_calls EXCEPT
                                ![d] = IF failed THEN HookCallsAfter(@, hooked[d]) ELSE @]
          /\ initRes' = [initRes EXCEPT
                            ![d] = IF ready THEN "true"
                                   ELSE IF failed THEN InitializeReturn(hooked[d], errOk)
                                   ELSE @]
    /\ UNCHANGED <<device_id, model_path, hooked, message_queue, response_handlers, loops>>
    /\ UNCHANGED <<msgVars, orchVars, spawnerVars>>
    /\ UNCHANGED <<task_assignments, cpu_utilization, bcast, pinf, pte, monitor>>
    /\ UNCHANGED <<payload, metrics, campaign, dos_responses, terminations>>

\* ------------------------------------------------------------------
\* Inference service and counters (dte_device.py: _handle_inference)
\* ------------------------------------------------------------------

\* message.get("max_tokens", 512): the default of a message without the key.
DefaultMaxTokens == 512

\* The max_tokens values a sender supplies: the 100 of the usage scenario, the
\* default, zero and a negative number (the handler takes the value as it is).
TokenValues == {100, DefaultMaxTokens, 0, -5}

\* _handle_inference, "Update metrics": inference_count += 1 and
\* tokens_processed += max_tokens.
MetricsAfterInference(mt, max_tokens) ==
    [inference_count |-> mt.inference_count + 1,
     tokens_processed |-> mt.tokens_processed + max_tokens]

\* send_message of an inference message {prompt, max_tokens: tokens} with
\* expect_response = True, on the device directly.
InferenceSend(c, d, tokens) ==
    /\ SendMessageBody(c, d, 0, "inference", TRUE, FALSE)
    /\ payload' = [payload EXCEPT ![c] = tokens]
    /\ UNCHANGED <<task_assignments, cpu_utilization, bcast, pinf, pte, monitor>>
    /\ UNCHANGED <<initRes, runtime_state, stamped, metrics, campaign, dos_responses, terminations>>

\* _handle_inference resumes after _simulate_inference, updates the counters
\* and returns its response.
LoopHandlerCount(d, l) ==
    /\ LoopHandlerDoneBody(d, l)
    /\ metrics' = [metrics EXCEPT
                      ![d] = MetricsAfterInference(@, payload[loops[d][l].msg.seq])]
    /\ UNCHANGED <<task_assignments, cpu_utilization, bcast, pinf, pte, monitor>>
    /\ UNCHANGED <<initRes, runtime_state, stamped, payload, campaign, dos_responses, terminations>>

\* ------------------------------------------------------------------
\* Red team (red_team.py). Impact scores and rates are in hundredths.
\* ------------------------------------------------------------------

\* _initialize_default_scenarios: the catalog, in registration order.
Catalog ==
    <<"attention_depletion", "memory_exhaustion", "prompt_injection",
      "timing_analysis", "dos">>

\* success_criteria["attention_below_threshold"]
AttentionThreshold == 30

\* metrics.get("attention_value", 100): the value when the response is None or
\* carries no such metric.
DefaultAttention == 100

\* success_criteria["memory_utilization_above"]
MemoryThreshold == 95

\* success_criteria["request_failure_rate"], 0.5
FailureRateThreshold == 50

\* _attack_dos: concurrent_requests = 100
ConcurrentRequests == 100

\* The attention_value a target's response can carry (the target is any object
\* with send_message): depleted, low, the default, and above the scale.
AttentionValues == {0, 20, DefaultAttention, 150}

\* memory_used_mb and memory_mb a target's get_status can carry: the default 0
\* of the .get call, the 256 and 70 * 1024 MB a boot-staged device allocates,
\* and the 16 * 1024 MB of a 16 GB device.
MemoryUsedValues == {0, 256, 71680}
MemoryTotalValues == {16384}

\* Elapsed milliseconds of the three timed requests (same, growing, one slow,
\* a clock that did not advance).
TimingSamples == {<<8, 8, 8>>, <<8, 9, 16>>, <<1, 30, 2>>, <<0, 8, 8>>}

\* How the 100 requests of the denial-of-service attack can end: raised an
\* exception, returned None on the response timeout, returned a response with
\* an "error" key (as "Model not loaded"); the others succeeded.
DosOutcomes ==
    {r \in [exception : {0, 26}, none : {0, 25}, error : {0, 50, 100}] :
        r.exception + r.none + r.error <= ConcurrentRequests}

SeqMin(ts) == CHOOSE x \in {ts[i] : i \in 1..Len(ts)} : \A j \in 1..Len(ts) : x <= ts[j]
SeqMax(ts) == CHOOSE x \in {ts[i] : i \in 1..Len(ts)} : \A j \in 1..Len(ts) : x >= ts[j]
Least(a, b) == IF a <= b THEN a ELSE b

\* _attack_attention_depletion: success and impact_score = 1.0 - value / 100.0
AttentionScore(value) ==
    [success |-> value < AttentionThreshold, impact |-> 100 - value, failures |-> 0]

\* _attack_memory_exhaustion: utilization = used / total * 100 when total > 0,
\* impact_score = utilization / 100.0
MemoryScore(used, total) ==
    LET utilization == IF total > 0 THEN (used * 100) \div total ELSE 0
    IN [success |-> utilization > MemoryThreshold, impact |-> utilization, failures |-> 0]

\* _attack_prompt_injection: impact_score = 0.7 if success else 0.2
InjectionScore(deviation) ==
    [success |-> deviation, impact |-> IF deviation THEN 70 ELSE 20, failures |-> 0]

\* _attack_timing_analysis: variance_ratio = (max - min) / min when min > 0,
\* success = ratio > 2.0, impact_score = min(ratio / 10.0, 1.0)
TimingScore(ts) ==
    LET spread == SeqMax(ts) - SeqMin(ts)
        least == SeqMin(ts)
    IN [success |-> least > 0 /\ spread > 2 * least,
        impact |-> IF least > 0 THEN Least((spread * 10) \div least, 100) ELSE 0,
        failures |-> 0]

\* _attack_dos: failures counts the responses that are an exception, None or
\* carry "error"; failure_rate = failures / 100; success = rate > 0.5.
DosFailures(r) == r.exception + r.none + r.error
DosScore(r) ==
    LET failures == DosFailures(r)
        failure_rate == (failures * 100) \div ConcurrentRequests
    IN [success |-> failure_rate > FailureRateThreshold, impact |-> failure_rate,
        failures |-> failures]

\* execute_scenario, the try branch: the AttackResult the procedure returned.
ReturnedResult(k, score) ==
    [scenario |-> Catalog[k], threw |-> FALSE, success |-> score.success,
     impact |-> score.impact, failures |-> score.failures]

\* execute_scenario, the except branch: success=False, impact_score=0.0.
ExceptionResult(k) ==
    [scenario |-> Catalog[k], threw |-> TRUE, success |-> FALSE, impact |-> 0,
     failures |-> 0]

\* execute_scenario: self.results.append(result) is inside the try block, after
\* the procedure returned.
RecordedAfter(n, r) == IF r.threw THEN n ELSE n + 1

\* Mutation of CallResultsAfter: only what the agent recorded is returned.
CallResultsAfter_Recorded(results, r) == IF r.threw THEN results ELSE Append(results, r)

\* execute_all_scenarios: results.append(result) for every scenario.
CallResultsAfter(results, r) == Append(results, r)

\* run_campaign: agent = self.agents[i % agent_count] for the i-th target
\* (targets and agents counted from 1 here).
AgentOf(i, n) == ((i - 1) % n) + 1

\* run_campaign up to its first suspension: the agents are created and the
\* first target's execute_all_scenarios runs into its first attack procedure,
\* which awaits the target.
CampaignBegin(ndev, nagents) ==
    /\ campaign.pc = "idle"
    /\ campaign' =
          IF ndev = 0
          THEN [campaign EXCEPT !.pc = "returned", !.nagents = nagents]
          ELSE [campaign EXCEPT !.pc = "attack", !.ndev = ndev, !.nagents = nagents,
                                !.dev = 1, !.scen = 1,
                                !.started = {AgentOf(1, nagents)}]
    /\ UNCHANGED <<devVars, msgVars, orchVars, spawnerVars>>
    /\ UNCHANGED <<task_assignments, cpu_utilization, bcast, pinf, pte, monitor>>
    /\ UNCHANGED <<initRes, runtime_state, stamped, payload, metrics, dos_responses, terminations>>

\* The attack procedure of scenario k ends with result r and execute_scenario
\* returns it; execute_all_scenarios appends it and sleeps.
AttackEndBody(k, r) ==
    /\ campaign.pc = "attack"
    /\ campaign.scen = k
    /\ campaign' =
          [campaign EXCEPT
              !.pc = "pause",
              !.results = CallResultsAfter(@, r),
              !.recorded[AgentOf(campaign.dev, campaign.nagents)] = RecordedAfter(@, r)]
    /\ UNCHANGED <<devVars, msgVars, orchVars, spawnerVars>>
    /\ UNCHANGED <<task_assignments, cpu_utilization, bcast, pinf, pte, monitor>>
    /\ UNCHANGED <<initRes, runtime_state, stamped, payload, metrics, terminations>>

\* An attack procedure other than the denial of service returns its score.
AttackEnd(k, score) ==
    /\ k # Len(Catalog)
    /\ AttackEndBody(k, ReturnedResult(k, score))
    /\ UNCHANGED dos_responses

\* The attack procedure raises (the target's send_message or get_status
\* raised, or the response had an unexpected shape).
AttackThrows(k) ==
    /\ AttackEndBody(k, ExceptionResult(k))
    /\ UNCHANGED dos_responses

\* _attack_dos: gather(..., return_exceptions=True) returns the outcomes r of
\* the 100 requests.
DosEnd(r) ==
    /\ AttackEndBody(Len(Catalog), ReturnedResult(Len(Catalog), DosScore(r)))
    /\ dos_responses' = r

\* execute_all_scenarios after its pause: the next scenario, or the return to
\* run_campaign, which goes to the next target or returns its report.
PauseEnd ==
    /\ campaign.pc = "pause"
    /\ campaign' =
          IF campaign.scen < Len(Catalog)
          THEN [campaign EXCEPT !.pc = "attack", !.scen = @ + 1]
          ELSE IF campaign.dev < campaign.ndev
               THEN [campaign EXCEPT
                        !.pc = "attack", !.dev = @ + 1, !.scen = 1,
                        !.started = @ \cup {AgentOf(campaign.dev + 1, campaign.nagents)},
                        !.results = <<>>,
                        !.total = @ + Len(campaign.results)]
               ELSE [campaign EXCEPT !.pc = "returned",
                                     !.total = @ + Len(campaign.results)]
    /\ dos_responses' =
          IF campaign.scen = Len(Catalog) /\ campaign.dev < campaign.ndev
          THEN NoRequests ELSE dos_responses
    /\ UNCHANGED <<devVars, msgVars, orchVars, spawnerVars>>
    /\ UNCHANGED <<task_assignments, cpu_utilization, bcast, pinf, pte, monitor>>
    /\ UNCHANGED <<initRes, runtime_state, stamped, payload, metrics, terminations>>

\* ------------------------------------------------------------------
\* terminate_agent calls in flight together (agent_spawner.py,
\* orchestrator.py)
\* ------------------------------------------------------------------

\* del self.spawned_agents[agent_id]; self.total_terminated += 1; return True.
\* The del raises KeyError when the record is gone.
TerminationEnd(registered) == IF registered THEN "true" ELSE "raised"

\* terminate_agent(a) from its call to its first suspension or its return.
\* An unknown agent returns False. Otherwise terminate_device is awaited under
\* the device id: a registered device is terminated and unregistered, and the
\* orchestrator's on_device_terminated hook, when set, is awaited (suspends:
\* the hook yields to the event loop); an id the registry does not hold makes
\* terminate_device return False at once. Without a suspension the record is
\* deleted and the counter bumped in the same step.
TerminateAgentCall(c, a, suspends) ==
    /\ terminations[c].pc = "idle"
    /\ \A b \in TerminateCalls : b < c => terminations[b].pc # "idle"
    /\ LET id == device_id[agent[a].device]
           held == spawned_agents[a] /\ devices[id] # 0
           waits == held /\ suspends
       IN /\ terminations' = [terminations EXCEPT ![c] =
                [pc |-> IF ~spawned_agents[a] THEN "false"
                        ELSE IF waits THEN "hook" ELSE "true",
                 agent |-> a]]
          /\ state' = IF spawned_agents[a] THEN StateAfterTerminateDevice(id) ELSE state
          /\ devices' = IF spawned_agents[a] THEN DevicesAfterTerminateDevice(id) ELSE devices
          /\ spawned_agents' = IF spawned_agents[a] /\ ~waits
                               THEN [spawned_agents EXCEPT ![a] = FALSE]
                               ELSE spawned_agents
          /\ total_terminated' = IF waits THEN total_terminated
                                 ELSE TotalTerminatedAfter(total_terminated, spawned_agents[a])
    /\ UNCHANGED <<device_id, model_path, model_loaded, hooked, message_queue,
                   response_handlers, error_count, on_error_calls, loops, initPc>>
    /\ UNCHANGED <<msgVars, total_devices_created, shutdown>>
    /\ UNCHANGED <<agent, total_spawned, spawnReq, pool>>
    /\ UNCHANGED <<task_assignments, cpu_utilization, bcast, pinf, pte, monitor>>
    /\ UNCHANGED <<initRes, runtime_state, stamped, payload, metrics, campaign, dos_responses>>

\* The on_device_terminated hook returns: terminate_device returns True and
\* terminate_agent deletes the record, bumps the counter and returns True.
TerminateAgentResume(c) ==
    /\ terminations[c].pc = "hook"
    /\ LET a == terminations[c].agent
       IN /\ terminations' = [terminations EXCEPT ![c].pc = TerminationEnd(spawned_agents[a])]
          /\ spawned_agents' = [spawned_agents EXCEPT ![a] = FALSE]
          /\ total_terminated' = TotalTerminatedAfter(total_terminated, spawned_agents[a])
    /\ UNCHANGED <<devVars, msgVars, orchVars>>
    /\ UNCHANGED <<agent, total_spawned, spawnReq, pool>>
    /\ UNCHANGED <<task_assignments, cpu_utilization, bcast, pinf, pte, monitor>>
    /\ UNCHANGED <<initRes, runtime_state, stamped, payload, metrics, campaign, dos_responses>>

\* ------------------------------------------------------------------
\* Specifications
\* ------------------------------------------------------------------

TypeOK ==
    /\ state \in [Dev -> DeviceState \cup {"absent"}]
    /\ device_id \in [Dev -> DeviceIds \cup {0}]
    /\ devices \in [DeviceIds -> Dev \cup {0}]
    /\ nsent \in 0..MaxSends

\* No device constructed, nothing registered.
InitCommon ==
    /\ message_queue = [d \in Dev |-> <<>>]
    /\ response_handlers = [d \in Dev |-> [i \in MsgIds |-> 0]]
    /\ error_count = [d \in Dev |-> 0]
    /\ on_error_calls = [d \in Dev |-> 0]
    /\ initPc = [d \in Dev |-> "idle"]
    /\ callers = [c \in Callers |-> IdleCaller]
    /\ nsent = 0
    /\ shutdown = IdleShutdown
    /\ spawned_agents = [a \in Agents |-> FALSE]
    /\ agent = [a \in Agents |-> NoAgent]
    /\ total_spawned = 0
    /\ total_terminated = 0
    /\ spawnReq = [d \in Dev |-> NoReq]
    /\ pool = IdlePool
    /\ task_assignments = [a \in Agents |-> 0]
    /\ cpu_utilization = [d \in Dev |-> NoLoad]
    /\ bcast = IdleBcast
    /\ pinf = IdlePinf
    /\ pte = IdlePte
    /\ monitor = NoMonitor
    /\ initRes = [d \in Dev |-> "none"]
    /\ runtime_state = [d \in Dev |-> NoRuntimeState]
    /\ stamped = [d \in Dev |-> <<>>]
    /\ payload = [c \in Callers |-> NoTokens]
    /\ metrics = [d \in Dev |-> NoCounts]
    /\ campaign = IdleCampaign
    /\ dos_responses = NoRequests
    /\ terminations = [c \in TerminateCalls |-> NoTermination]

\* A fresh orchestrator and spawner.
Init ==
    /\ InitCommon
    /\ state = [d \in Dev |-> "absent"]
    /\ device_id = [d \in Dev |-> 0]
    /\ model_path = [d \in Dev |-> FALSE]
    /\ hooked = [d \in Dev |-> FALSE]
    /\ model_loaded = [d \in Dev |-> FALSE]
    /\ loops = [d \in Dev |-> [l \in Loops |-> NoLoop]]
    /\ devices = [i \in DeviceIds |-> 0]
    /\ total_devices_created = 0

\* The orchestrator and the spawner: spawns, terminations and shutdown_all.
Next ==
    \/ \E s \in SuppliedIds \cup {0}, mp \in BOOLEAN : SpawnBegin(FreeDev, s, "device", FALSE, mp)
    \/ SpawnBegin(FreeDev, 0, "agent", FALSE, FALSE)
    \/ \E d \in Dev, ok \in BOOLEAN : SpawnEnd(d, ok)
    \/ \E id \in DeviceIds : TerminateDevice(id)
    \/ \E a \in Agents : TerminateAgent(a)
    \/ ShutdownBegin
    \/ \E d \in Dev, ok \in BOOLEAN : ShutdownTerminate(d, ok)
    \/ ShutdownEnd

Spec == Init /\ [][Next]_vars

\* One device, constructed and driven directly: Device 1 is UNINITIALIZED, with
\* or without a model path and with or without the hooks set.
InitDevice ==
    /\ InitCommon
    /\ state = [d \in Dev |-> IF d = 1 THEN UNINITIALIZED ELSE "absent"]
    /\ device_id = [d \in Dev |-> IF d = 1 THEN 1 ELSE 0]
    /\ \E mp \in BOOLEAN : model_path = [d \in Dev |-> d = 1 /\ mp]
    /\ \E h \in BOOLEAN : hooked = [d \in Dev |-> d = 1 /\ h]
    /\ model_loaded = [d \in Dev |-> FALSE]
    /\ loops = [d \in Dev |-> [l \in Loops |-> NoLoop]]
    /\ devices = [i \in DeviceIds |-> 0]
    /\ total_devices_created = 0

NextDevice ==
    \/ InitializeBegin(1)
    \/ \E ok \in BOOLEAN : InitializeEnd(1, ok)
    \/ Start(1)
    \/ Suspend(1)
    \/ Resume(1)
    \/ Terminate(1)
    \/ \E l \in Loops : LoopCheck(1, l)
    \/ \E l \in Loops : LoopTimeout(1, l)

SpecDevice == InitDevice /\ [][NextDevice]_vars

\* One device, constructed and driven directly through its whole lifecycle,
\* with query messages sent to it in every state it goes through. A call that
\* expects a response gets a fresh id; a fire-and-forget call gets a fresh id
\* or carries the id of an earlier message again (s), as a message dict that
\* is sent a second time does.
NextSend ==
    \/ InitializeBegin(1)
    \/ \E ok \in BOOLEAN : InitializeEnd(1, ok)
    \/ Start(1)
    \/ Suspend(1)
    \/ Resume(1)
    \/ Terminate(1)
    \/ SendMessage(nsent + 1, 1, 0, "query", TRUE, FALSE)
    \/ \E s \in 0..nsent : SendMessage(nsent + 1, 1, s, "query", FALSE, FALSE)
    \/ \E c \in Callers : CallerTimeout(c)
    \/ \E l \in Loops : LoopCheck(1, l)
    \/ \E l \in Loops : LoopTimeout(1, l)
    \/ \E l \in Loops : LoopDequeue(1, l)

SpecSend == InitDevice /\ [][NextSend]_vars

\* One device that the orchestrator has spawned and started (it is RUNNING and
\* its run-loop task is created), then used through the message protocol.
InitMessages ==
    /\ InitCommon
    /\ state = [d \in Dev |-> IF d = 1 THEN RUNNING ELSE "absent"]
    /\ device_id = [d \in Dev |-> IF d = 1 THEN 1 ELSE 0]
    /\ \E mp \in BOOLEAN :
          /\ model_path = [d \in Dev |-> d = 1 /\ mp]
          /\ model_loaded = [d \in Dev |-> d = 1 /\ mp]
    /\ hooked = [d \in Dev |-> d = 1]
    /\ loops = [d \in Dev |-> [l \in Loops |->
                   IF d = 1 /\ l = 1 THEN [pc |-> "top", msg |-> NoMsg] ELSE NoLoop]]
    /\ devices = [i \in DeviceIds |-> IF i = 1 THEN 1 ELSE 0]
    /\ total_devices_created = 1

NextMessages ==
    \/ \E s \in SuppliedMsgIds \cup {0}, t \in MsgTypes, e \in BOOLEAN, b \in BOOLEAN :
          SendMessage(nsent + 1, 1, s, t, e, b)
    \/ \E c \in Callers : CallerTimeout(c)
    \/ \E l \in Loops : LoopCheck(1, l)
    \/ \E l \in Loops : LoopTimeout(1, l)
    \/ \E l \in Loops : LoopDequeue(1, l)
    \/ \E l \in Loops : LoopHandlerDone(1, l)
    \/ Suspend(1)
    \/ Resume(1)
    \/ Terminate(1)

SpecMessages == InitMessages /\ [][NextMessages]_vars

\* The same device with every message under a fresh id (a generated uuid4):
\* the handlers and the except clause of the run loop without id collisions.
NextHandlers ==
    \/ \E t \in MsgTypes, e \in BOOLEAN, b \in BOOLEAN :
          SendMessage(nsent + 1, 1, 0, t, e, b)
    \/ \E c \in Callers : CallerTimeout(c)
    \/ \E l \in Loops : LoopCheck(1, l)
    \/ \E l \in Loops : LoopTimeout(1, l)
    \/ \E l \in Loops : LoopDequeue(1, l)
    \/ \E l \in Loops : LoopHandlerDone(1, l)
    \/ Suspend(1)
    \/ Resume(1)
    \/ Terminate(1)

SpecHandlers == InitMessages /\ [][NextHandlers]_vars

\* spawn_agent_pool calls, one after the other, on a spawner that is fresh at
\* the first, with the run loops of the devices they start.
NextPool ==
    \/ \E n \in 0..MaxPool : PoolBegin(n)
    \/ SpawnBegin(FreeDev, 0, "agent", TRUE, FALSE)
    \/ \E d \in Dev, ok \in BOOLEAN : SpawnEnd(d, ok)
    \/ SpawnRaise
    \/ PoolRaise
    \/ PoolReturn
    \/ \E d \in Dev, l \in Loops : LoopCheck(d, l)
    \/ \E d \in Dev, l \in Loops : LoopTimeout(d, l)

SpecPool == Init /\ [][NextPool]_vars

\* MaxDevices devices that the orchestrator has spawned and started under
\* generated ids, with or without a model: each is RUNNING, registered and
\* hooked, and its run-loop task is created.
InitFleet ==
    /\ InitCommon
    /\ \E n \in 1..MaxDevices :
          /\ state = [d \in Dev |-> IF d <= n THEN RUNNING ELSE "absent"]
          /\ device_id = [d \in Dev |-> IF d <= n THEN d ELSE 0]
          /\ \E mp \in [Dev -> BOOLEAN] :
                /\ model_path = [d \in Dev |-> d <= n /\ mp[d]]
                /\ model_loaded = model_path
          /\ hooked = [d \in Dev |-> d <= n]
          /\ loops = [d \in Dev |-> [l \in Loops |->
                         IF l = 1 /\ d <= n THEN [pc |-> "top", msg |-> NoMsg] ELSE NoLoop]]
          /\ devices = [i \in DeviceIds |-> IF i \in 1..n THEN i ELSE 0]
          /\ total_devices_created = n

\* parallel_inference calls on the fleet, with devices terminated meanwhile.
NextInference ==
    \/ \E ids \in SUBSET DeviceIds, default \in BOOLEAN, bad \in BOOLEAN :
          PinfBegin(ids, default, bad)
    \/ \E id \in DeviceIds : PinfSend(id)
    \/ PinfReturn
    \/ \E c \in Callers : CallerTimeout(c)
    \/ \E d \in Dev, l \in Loops : LoopCheck(d, l)
    \/ \E d \in Dev, l \in Loops : LoopTimeout(d, l)
    \/ \E d \in Dev, l \in Loops : LoopDequeue(d, l)
    \/ \E d \in Dev, l \in Loops : LoopHandlerDone(d, l)
    \/ \E id \in DeviceIds : TerminateDevice(id)

SpecInference == InitFleet /\ [][NextInference]_vars

\* Calls by id on a fresh orchestrator and spawner: agents are spawned and
\* terminated, and every call is made with known and with unknown ids. The
\* calls are followed up to their return or their suspension in send_message
\* (which ends by the timeout); the run loops are left out.
NextById ==
    \/ SpawnBegin(FreeDev, 0, "agent", FALSE, FALSE)
    \/ \E d \in Dev, ok \in BOOLEAN : SpawnEnd(d, ok)
    \/ \E id \in DeviceIds : TerminateDevice(id)
    \/ \E a \in Agents : TerminateAgent(a)
    \/ \E id \in DeviceIds, e \in BOOLEAN :
          nsent < MaxCalls /\ SendToDevice(id, "query", e, FALSE)
    \/ \E a \in Agents : nsent < MaxCalls /\ AssignTask(a, FALSE)
    \/ \E c \in Callers : CallerTimeout(c)

SpecById == Init /\ [][NextById]_vars

\* One elastic pool on a fresh spawner: its initial pool, the monitor, the run
\* loops of the members with their gauges, and members terminated from outside.
NextElastic ==
    \/ \E min \in 0..MaxPool, max \in 1..MaxAgents : ElasticBegin(min, max)
    \/ SpawnBegin(FreeDev, 0, "agent", TRUE, FALSE)
    \/ \E d \in Dev, ok \in BOOLEAN : SpawnEnd(d, ok)
    \/ ElasticStart
    \/ MonitorPoll
    \/ \E d \in Dev, l \in Loops : LoopCheck(d, l)
    \/ \E d \in Dev, l \in Loops, u \in UtilLevels : LoopTimeoutWork(d, l, u)
    \/ \E a \in Agents : TerminateAgent(a)

SpecElastic == Init /\ [][NextElastic]_vars

\* The elastic pool with its monitor task scheduled: the sleep of a poll ends
\* and the event loop resumes the task. The gauges are the initial 0 or the
\* 95 of a loaded device, which put the average on either side of both
\* thresholds or between them.
NextElasticLive ==
    \/ \E min \in 0..MaxPool, max \in 1..MaxAgents : ElasticBegin(min, max)
    \/ SpawnBegin(FreeDev, 0, "agent", TRUE, FALSE)
    \/ \E d \in Dev, ok \in BOOLEAN : SpawnEnd(d, ok)
    \/ ElasticStart
    \/ MonitorPoll
    \/ \E d \in Dev, l \in Loops : LoopCheck(d, l)
    \/ \E d \in Dev, l \in Loops : LoopTimeoutWork(d, l, FullLoad)
    \/ \E a \in Agents : TerminateAgent(a)

SpecElasticLive == Init /\ [][NextElasticLive]_vars /\ WF_vars(MonitorPoll)

\* parallel_task_execution calls on a fresh spawner, with the pools they spawn
\* on demand, the run loops of the devices, and agents terminated meanwhile.
NextTasks ==
    \/ \E n \in 0..MaxSends : PteBegin(TemplateRole, n)
    \/ SpawnBegin(FreeDev, 0, "agent", TRUE, FALSE)
    \/ \E d \in Dev, ok \in BOOLEAN : SpawnEnd(d, ok)
    \/ PteDistribute
    \/ \E t \in 1..MaxSends : PteAssign(t)
    \/ PteReturn
    \/ \E c \in Callers : CallerTimeout(c)
    \/ \E d \in Dev, l \in Loops : LoopCheck(d, l)
    \/ \E d \in Dev, l \in Loops : LoopTimeout(d, l)
    \/ \E d \in Dev, l \in Loops : LoopDequeue(d, l)
    \/ \E a \in Agents : TerminateAgent(a)

SpecTasks == Init /\ [][NextTasks]_vars

\* broadcast calls on the fleet, with devices spawned and terminated meanwhile.
NextBroadcast ==
    \/ \E t \in {"inference", "query"} : BcastBegin(t)
    \/ \E t \in {"inference", "query"} : BcastNoWait(t)
    \/ BcastNext
    \/ \E c \in Callers : CallerTimeout(c)
    \/ \E d \in Dev, l \in Loops : LoopCheck(d, l)
    \/ \E d \in Dev, l \in Loops : LoopTimeout(d, l)
    \/ \E d \in Dev, l \in Loops : LoopDequeue(d, l)
    \/ \E d \in Dev, l \in Loops : LoopHandlerDone(d, l)
    \/ \E mp \in BOOLEAN : SpawnBegin(FreeDev, 0, "device", FALSE, mp)
    \/ \E d \in Dev, ok \in BOOLEAN : SpawnEnd(d, ok)
    \/ \E id \in DeviceIds : TerminateDevice(id)

SpecBroadcast == InitFleet /\ [][NextBroadcast]_vars

\* One boot-staged device, constructed and driven directly, with initialize()
\* followed stage by stage: any stage may raise where its code can, and the
\* hooks may raise. The other lifecycle calls land between the stages.
NextBoot ==
    \/ BootBegin(1)
    \/ \E ok, notifyOk, errOk \in BOOLEAN : BootStep(1, ok, notifyOk, errOk)
    \/ Start(1)
    \/ Suspend(1)
    \/ Resume(1)
    \/ Terminate(1)
    \/ \E l \in Loops : LoopCheck(1, l)
    \/ \E l \in Loops : LoopTimeout(1, l)

SpecBoot == InitDevice /\ [][NextBoot]_vars

\* Boot-staged devices spawned through the orchestrator, with or without a
\* model path, that serve inference messages sent with expect_response = True;
\* the counters of DeviceMetrics are followed.
NextServe ==
    \/ \E mp \in BOOLEAN : SpawnBegin(FreeDev, 0, "device", FALSE, mp)
    \/ \E d \in Dev, ok \in BOOLEAN : SpawnEnd(d, ok)
    \/ \E d \in Dev, t \in TokenValues : InferenceSend(nsent + 1, d, t)
    \/ \E c \in Callers : CallerTimeout(c)
    \/ \E d \in Dev, l \in Loops : LoopCheck(d, l)
    \/ \E d \in Dev, l \in Loops : LoopTimeout(d, l)
    \/ \E d \in Dev, l \in Loops : LoopDequeue(d, l)
    \/ \E d \in Dev, l \in Loops : LoopHandlerCount(d, l)

SpecServe == Init /\ [][NextServe]_vars

\* One campaign of a fresh RedTeamOrchestrator with the default catalog: the
\* targets answer the attack procedures in every way listed above, and any
\* procedure may raise.
NextCampaign ==
    \/ \E ndev \in 0..MaxTargets, nagents \in 1..MaxRedAgents : CampaignBegin(ndev, nagents)
    \/ \E v \in AttentionValues : AttackEnd(1, AttentionScore(v))
    \/ \E u \in MemoryUsedValues, t \in MemoryTotalValues : AttackEnd(2, MemoryScore(u, t))
    \/ \E b \in BOOLEAN : AttackEnd(3, InjectionScore(b))
    \/ \E ts \in TimingSamples : AttackEnd(4, TimingScore(ts))
    \/ \E r \in DosOutcomes : DosEnd(r)
    \/ \E k \in 1..Len(Catalog) : AttackThrows(k)
    \/ PauseEnd

SpecCampaign == Init /\ [][NextCampaign]_vars

\* terminate_agent calls made together on the agents of a fresh spawner, with
\* and without an on_device_terminated hook, and the run loops of the devices.
NextTerminate ==
    \/ SpawnBegin(FreeDev, 0, "agent", FALSE, FALSE)
    \/ \E d \in Dev, ok \in BOOLEAN : SpawnEnd(d, ok)
    \/ \E c \in TerminateCalls, a \in Agents, h \in BOOLEAN : TerminateAgentCall(c, a, h)
    \/ \E c \in TerminateCalls : TerminateAgentResume(c)
    \/ \E d \in Dev, l \in Loops : LoopCheck(d, l)
    \/ \E d \in Dev, l \in Loops : LoopTimeout(d, l)

SpecTerminate == Init /\ [][NextTerminate]_vars

\* The spawner under every way its registry is edited: single spawns, an
\* elastic pool with its monitor, terminate_agent calls in flight together
\* (as terminate_all_agents makes them). The run loops are not followed, so
\* the gauges stay idle and the monitor scales down.
NextSpawner ==
    \/ SpawnBegin(FreeDev, 0, "agent", FALSE, FALSE)
    \/ \E min \in 0..MaxPool : ElasticBegin(min, MaxAgents)
    \/ SpawnBegin(FreeDev, 0, "agent", TRUE, FALSE)
    \/ \E d \in Dev, ok \in BOOLEAN : SpawnEnd(d, ok)
    \/ ElasticStart
    \/ MonitorPoll
    \/ \E c \in TerminateCalls, a \in Agents, h \in BOOLEAN : TerminateAgentCall(c, a, h)
    \/ \E c \in TerminateCalls : TerminateAgentResume(c)

SpecSpawner == Init /\ [][NextSpawner]_vars

\* parallel_task_execution calls for every role on a fresh spawner, with the
\* pools they spawn on demand and the run loops that answer the tasks.
NextRoles ==
    \/ \E r \in AgentRoles, n \in 0..MaxSends : PteBegin(r, n)
    \/ SpawnBegin(FreeDev, 0, "agent", TRUE, FALSE)
    \/ \E d \in Dev, ok \in BOOLEAN : SpawnEnd(d, ok)
    \/ PteDistribute
    \/ \E t \in 1..MaxSends : PteAssign(t)
    \/ PteReturn
    \/ \E c \in Callers : CallerTimeout(c)

SpecRoles == Init /\ [][NextRoles]_vars

\* assign_task calls with every task_params followed, on the agents of a fresh
\* spawner, known and unknown, with the run loops that answer the tasks.
NextAssign ==
    \/ SpawnBegin(FreeDev, 0, "agent", FALSE, FALSE)
    \/ \E d \in Dev, ok \in BOOLEAN : SpawnEnd(d, ok)
    \/ \E a \in Agents, p \in TaskParams : AssignTaskWith(a, p)
    \/ \E c \in Callers : CallerTimeout(c)
    \/ \E d \in Dev, l \in Loops : LoopCheck(d, l)
    \/ \E d \in Dev, l \in Loops : LoopTimeout(d, l)
    \/ \E d \in Dev, l \in Loops : LoopDequeue(d, l)

SpecAssign == Init /\ [][NextAssign]_vars

\* ------------------------------------------------------------------
\* Properties
\* ------------------------------------------------------------------

\* A step in which run loop l of device d takes a message off the queue and
\* hands it to _process_message.
Dequeues(d, l) ==
    /\ loops[d][l].pc = "wait"
    /\ loops'[d][l].pc # "wait"
    /\ message_queue[d] # <<>>
    /\ message_queue'[d] = Tail(message_queue[d])

\* C1: TERMINATED is absorbing - no lifecycle call made on a device whose state
\* is TERMINATED changes the state to anything else.
C1_TerminatedAbsorbing ==
    [][\A d \in Dev : state[d] = TERMINATED => state'[d] = TERMINATED]_vars

\* The edges of the lifecycle graph of section 4.1.
LifecycleEdge(s, t) ==
    \/ s = UNINITIALIZED /\ t = INITIALIZING
    \/ s = INITIALIZING /\ t = READY
    \/ s = READY /\ t = RUNNING
    \/ s = RUNNING /\ t = SUSPENDED
    \/ s = SUSPENDED /\ t = RUNNING
    \/ s # TERMINATED /\ t = ERROR
    \/ s # TERMINATED /\ t = TERMINATED

\* C2: every change of a device's state follows an edge of the lifecycle graph;
\* READY to RUNNING is taken by start only, RUNNING to SUSPENDED by suspend only,
\* SUSPENDED to RUNNING by resume only, and start, suspend and resume called in
\* any other state leave the state unchanged.
C2_LifecycleGraph ==
    [][\A d \in Dev :
          /\ state'[d] # state[d] => LifecycleEdge(state[d], state'[d])
          /\ state[d] = READY /\ state'[d] = RUNNING => Start(d)
          /\ state[d] = RUNNING /\ state'[d] = SUSPENDED => Suspend(d)
          /\ state[d] = SUSPENDED /\ state'[d] = RUNNING => Resume(d)
          /\ Start(d) /\ state[d] # READY => state'[d] = state[d]
          /\ Suspend(d) /\ state[d] # RUNNING => state'[d] = state[d]
          /\ Resume(d) /\ state[d] # SUSPENDED => state'[d] = state[d]]_vars

\* C3: once a device's state is TERMINATED its run loop hands no further
\* message to a handler, whatever the loop was doing when terminate() ran.
C3_NoDispatchAfterTerminated ==
    [][\A d \in Dev, l \in Loops :
          state[d] = TERMINATED /\ Dequeues(d, l)
             => Head(message_queue[d]).type \notin {"inference", "command", "query"}]_vars

\* C4: of two concurrent send_message calls with expect_response = true to one
\* device, each caller that gets a response gets the one produced for its own
\* message, with generated or with caller-supplied message ids.
C4_OwnResponse ==
    \A c \in Callers :
        (/\ \A k \in Callers : callers[k].expect
         /\ callers[c].pc = "returned"
         /\ callers[c].res # NoResponse)
            => callers[c].res.for = callers[c].seq

\* C5: the completion handle a send_message(expect_response = true) call
\* registered is consumed exactly once, by the run loop or by the caller's
\* timeout, and the call ends by returning: the timeout branch never raises.
C5_HandleConsumedOnce ==
    \A c \in Callers :
        callers[c].expect /\ callers[c].pc \in {"returned", "raised"}
            => callers[c].pc = "returned" /\ callers[c].consumed = 1

C7_ErrorResponse ==
    [][\A d \in Dev, l \in Loops :
          LET m == Head(message_queue[d])
              h == response_handlers[d][m.id]
          IN (Dequeues(d, l) /\ HandlerRaises(d, m) /\ m.expect_response /\ h # 0)
                => /\ callers'[h].pc = "returned"
                   /\ callers'[h].res.status = "error"]_vars

\* The states of a device whose initialize() returned True.
Initialized == {READY, RUNNING, SUSPENDED, TERMINATED}

\* C8: every device in the orchestrator registry, and every device wrapped by
\* an agent of the spawner registry, completed initialize() successfully; a
\* device whose initialization failed (ERROR, error counted) is in neither.
C8_OnlyInitializedRegistered ==
    /\ \A d \in Registered : state[d] \in Initialized /\ error_count[d] = 0
    /\ \A a \in ActiveAgents :
          state[agent[a].device] \in Initialized /\ error_count[agent[a].device] = 0

\* C8 witness: one spawn failed and is in ERROR while another device is
\* registered and wrapped by an agent.
C8_Witness ==
    /\ \E d \in Dev : state[d] = ERROR /\ d \notin Registered
    /\ \E a \in ActiveAgents : agent[a].device \in Registered

\* C9: no two devices that the orchestrator started and that are not
\* terminated carry the same device id.
C9_UniqueDeviceIds ==
    \A d1, d2 \in Dev :
        d1 # d2 /\ state[d1] = RUNNING /\ state[d2] = RUNNING
            => device_id[d1] # device_id[d2]

C11_PoolFiltersFailures ==
    /\ pool.pc # "raised"
    /\ (pool.pc = "returned" /\ pool.started = pool.n) =>
           \A a \in ActiveAgents : agent[a].pooled => a \in pool.result

\* C12: when a parallel_inference call returns, it holds one outcome per
\* requested id, and the outcome of a device whose inference handler raised
\* is a captured failure (an error record or an exception), while the others
\* keep their responses.
C12_HandlerFailureCaptured ==
    [][(pinf.pc = "gather" /\ pinf'.pc = "returned") =>
          \A id \in pinf.ids :
              /\ PinfOutcome(id) # "pending"
              /\ (pinf.sent[id] # 0 /\ error_count[callers[pinf.sent[id]].dev] > 0)
                     => PinfOutcome(id) \in {"error", "exception"}]_vars

\* C13: a broadcast that expects responses dispatches to all matching devices
\* together: when it first suspends, the message is on its way to every
\* registered device, so that no device waits for another one's answer.
C13_BroadcastConcurrent ==
    [][(bcast.pc # "waiting" /\ bcast'.pc = "waiting") =>
          \A i \in RegKeys : bcast'.sent[i] # 0]_vars

\* C14: while broadcast is suspended awaiting a device, no spawn or terminate
\* changes the registry it is iterating, and its iteration never fails on a
\* changed registry.
C14_NoLiveIteration ==
    [][/\ bcast.pc = "waiting" => RegKeys' = RegKeys
       /\ (bcast.pc = "waiting" /\ callers[bcast.sent[bcast.cur]].pc = "returned")
             => bcast'.pc # "raised"]_vars

\* What C15 says an operation on an unknown id leaves alone: both registries,
\* the counters, the task logs, the device queues (and the devices).
UnknownIdFrame ==
    <<devices, spawned_agents, agent, total_devices_created, total_spawned,
      total_terminated, task_assignments, message_queue, response_handlers, state,
      error_count>>

\* C15: terminate_device and terminate_agent on an unknown id return false,
\* send_to_device and assign_task on an unknown id return the not-found
\* record without raising, and each leaves registries, counters, task logs
\* and device queues unchanged.
C15_UnknownIdNoEffect ==
    [][/\ \A id \in DeviceIds :
            /\ (devices[id] = 0 /\ TerminateDevice(id))
                  => ~TerminateDeviceResult(id) /\ UNCHANGED UnknownIdFrame
            /\ \A e \in BOOLEAN :
                  (devices[id] = 0 /\ SendToDevice(id, "query", e, FALSE))
                     => /\ callers'[nsent + 1] = NotFoundCall
                        /\ UNCHANGED UnknownIdFrame
       /\ \A a \in Agents :
            /\ (~spawned_agents[a] /\ TerminateAgent(a))
                  => ~TerminateAgentResult(a) /\ UNCHANGED UnknownIdFrame
            /\ (~spawned_agents[a] /\ AssignTask(a, FALSE))
                  => /\ callers'[nsent + 1] = NotFoundCall
                     /\ UNCHANGED UnknownIdFrame]_vars

\* C15 witness: a call was answered with the not-found record after an agent
\* had been spawned and terminated, while another agent is registered, and no
\* task log has an entry.
C15_Witness ==
    /\ \E c \in Callers : callers[c] = NotFoundCall
    /\ total_terminated > 0
    /\ ActiveAgents # {}
    /\ \A a \in Agents : task_assignments[a] = 0

\* C16: parallel_task_execution never ends by raising, also when the pool it
\* spawns on demand comes back with fewer agents than tasks or with none, and
\* when it returns it holds one outcome per task.
C16_BatchNeverFails ==
    /\ pte.pc # "raised"
    /\ pte.pc = "returned" => \A t \in 1..pte.ntasks : PteOutcome(t) # "pending"

\* The agents of the elastic pool that are registered with the spawner.
PoolMembers == {monitor.list[i] : i \in LiveMembers(monitor.list)}

\* A step of the monitor task itself.
MonitorStep == monitor.pc \in {"sleep", "spawning"} /\ monitor' # monitor

\* C17: elastic scale-up. At a poll with the average gauge above the threshold
\* and the pool below max_agents the monitor spawns one agent, a spawn that
\* succeeds makes the pool one larger, the pool never grows by more than one
\* per poll, and at no poll does its size exceed max_agents.
C17_ScaleUpToMax ==
    [][/\ (monitor.pc = "sleep" /\ MonitorStep /\ PoolMembers # {}
              /\ LoadHigh(monitor.list, monitor.thr) /\ Len(monitor.list) < monitor.max)
            => monitor'.pc = "spawning"
       /\ (monitor.pc = "spawning" /\ MonitorStep /\ total_spawned' = total_spawned + 1)
            => /\ Len(monitor'.list) = Len(monitor.list) + 1
               /\ PoolMembers' = PoolMembers \cup {monitor'.list[Len(monitor'.list)]}
       /\ MonitorStep => Len(monitor'.list) <= Len(monitor.list) + 1
       /\ (monitor.pc = "sleep" /\ MonitorStep /\ Len(monitor.list) >= monitor.max)
            => monitor'.pc # "spawning"
       /\ monitor'.pc \in {"sleep", "spawning"} => Len(monitor'.list) <= monitor'.max]_vars

\* C18: elastic scale-down. At a poll with the average gauge below half the
\* threshold and more than one member in the pool, exactly one member is
\* terminated, none of the others has a lower gauge, and its agent and its
\* device leave both registries; a pool with one member is never shrunk.
C18_ScaleDownByOne ==
    [][/\ (monitor.pc = "sleep" /\ MonitorStep /\ PoolMembers # {}
              /\ LoadLow(monitor.list, monitor.thr) /\ Len(monitor.list) > 1)
            => \E a \in PoolMembers :
                  /\ PoolMembers' = PoolMembers \ {a}
                  /\ ~spawned_agents'[a]
                  /\ agent[a].device \notin Registered'
                  /\ total_terminated' = total_terminated + 1
                  /\ \A b \in PoolMembers : AgentLoad(a) <= AgentLoad(b)
       /\ (MonitorStep /\ Cardinality(PoolMembers) = 1) => PoolMembers \subseteq PoolMembers']_vars

\* The send_message call made in this step, if it is a fire-and-forget one.
SentNoResponse(c) ==
    callers[c].pc = "idle" /\ callers'[c].pc # "idle" /\ ~callers'[c].expect

\* C19: a send_message call with expect_response false, in whatever state the
\* device is, has returned at the end of its first step with no response, its
\* message is the new last element of the queue, and the handler map is as it
\* was.
C19_FireAndForget ==
    [][\A c \in Callers : SentNoResponse(c) =>
          LET d == callers'[c].dev
          IN /\ callers'[c].pc = "returned"
             /\ callers'[c].res = NoResponse
             /\ Len(message_queue'[d]) = Len(message_queue[d]) + 1
             /\ SubSeq(message_queue'[d], 1, Len(message_queue[d])) = message_queue[d]
             /\ message_queue'[d][Len(message_queue'[d])].id = callers'[c].id
             /\ ~message_queue'[d][Len(message_queue'[d])].expect_response
             /\ response_handlers' = response_handlers]_vars

\* C19 witness: on a device that was never initialized a fire-and-forget call
\* has returned that carried the id of an earlier call, whose handle is still
\* in the map and whose caller still waits; both messages are in the queue.
C19_Witness ==
    /\ state[1] = UNINITIALIZED
    /\ \E c, w \in Callers :
          /\ callers[c].pc = "returned" /\ ~callers[c].expect /\ callers[c].dev = 1
          /\ callers[w].pc = "waiting" /\ callers[w].id = callers[c].id
          /\ response_handlers[1][callers[w].id] = w
    /\ Len(message_queue[1]) = MaxSends

\* C20: at the step where shutdown_all returns, the registry is empty and every
\* device that was registered when it was called is TERMINATED, whether its
\* terminate() raised or not.
C20_ShutdownLeavesNothing ==
    [][(shutdown.pc = "gather" /\ shutdown'.pc = "returned") =>
          /\ Registered' = {}
          /\ \A i \in DeviceIds : devices'[i] = 0
          /\ \A d \in shutdown.snap : state'[d] = TERMINATED]_vars

\* C20 witness: shutdown_all has returned from a call made with a device
\* registered whose terminate() raised, and a device whose spawn finished
\* during the call is RUNNING and not in the registry.
C20_Witness ==
    /\ shutdown.pc = "returned"
    /\ shutdown.failed # {}
    /\ Registered = {}
    /\ \A d \in shutdown.snap : state[d] = TERMINATED
    /\ \E d \in Dev \ shutdown.snap : state[d] = RUNNING

\* C21: at the step where initialize() ends it returns a boolean and does not
\* raise: true exactly when the device is then READY, false exactly when it is
\* then ERROR, however the setup, the state-change hook or the error hook fail.
C21_InitializeNeverRaises ==
    [][\A d \in Dev :
          (initRes[d] = "running" /\ initRes'[d] # "running") =>
              /\ initRes'[d] \in {"true", "false"}
              /\ initRes'[d] = "true" <=> state'[d] = READY
              /\ initRes'[d] = "false" <=> state'[d] = ERROR]_vars

\* The boot_stage values written so far by the initialize() call of d.
Markers(d) == SelectSeq(stamped[d], LAMBDA x : x # "inference_ready")

\* The stage markers written by the initialize() call of d are the first due
\* stages in order, none skipped or repeated.
StampedInOrder(d) ==
    LET due == DueStages(model_path[d])
    IN /\ Len(Markers(d)) <= Len(due)
       /\ Markers(d) = SubSeq(due, 1, Len(Markers(d)))

\* C22: during initialize() of a boot-staged device the stage marker takes the
\* values uefi_boot, cpu_memory_init, nvme_init, ggml_init and, only with a
\* model path, model_load, in this order; the call ends in READY only after
\* every due stage was stamped, and a stage that fails ends it in ERROR with no
\* later stage stamped and the device not marked inference-ready.
C22_BootStageOrder ==
    [][\A d \in Dev :
          /\ StampedInOrder(d)'
          /\ initRes'[d] = "running" =>
                runtime_state'[d].boot_stage = Markers(d)'[Len(Markers(d)')]
          /\ (initRes[d] = "running" /\ initRes'[d] = "true") =>
                /\ state'[d] = READY
                /\ Markers(d)' = DueStages(model_path[d])
          /\ (initRes[d] = "running" /\ initRes'[d] \in {"false", "raised"}
                    /\ stamped'[d] = Markers(d)') =>
                /\ state'[d] = ERROR
                /\ stamped'[d] = stamped[d]
                /\ ~runtime_state'[d].inference_ready]_vars

\* C23: a device spawned through the orchestrator with no model path option
\* answers an inference message with max_tokens 100 sent with
\* expect_response = True with a success response.
C23_DefaultDeviceServesInference ==
    \A c \in Callers :
        (/\ callers[c].pc = "returned"
         /\ callers[c].res # NoResponse
         /\ payload[c] = 100
         /\ ~model_path[callers[c].dev])
        => callers[c].res.status = "success"

\* C24: the counters inference_count, tokens_processed and error_count of a
\* device never decrease, whatever max_tokens the messages carry.
C24_CountersNeverDecrease ==
    [][\A d \in Dev :
          /\ metrics'[d].inference_count >= metrics[d].inference_count
          /\ metrics'[d].tokens_processed >= metrics[d].tokens_processed
          /\ error_count'[d] >= error_count[d]]_vars

\* C25: execute_scenario never raises: a procedure that throws yields a result
\* with success false and impact 0, and execute_all_scenarios goes on, so its
\* result list holds one result per scenario run so far, in catalog order, and
\* all five when it returns.
C25_OneResultPerScenario ==
    /\ campaign.pc \in {"idle", "attack", "pause", "returned"}
    /\ campaign.pc = "attack" => Len(campaign.results) = campaign.scen - 1
    /\ campaign.pc = "pause" => Len(campaign.results) = campaign.scen
    /\ (campaign.pc = "returned" /\ campaign.ndev > 0) =>
          Len(campaign.results) = Len(Catalog)
    /\ \A k \in 1..Len(campaign.results) :
          /\ campaign.results[k].scenario = Catalog[k]
          /\ campaign.results[k].threw =>
                ~campaign.results[k].success /\ campaign.results[k].impact = 0

\* C25 witness: run_campaign has returned after the last target's run, in
\* which the first procedure threw and the later ones returned results.
C25_Witness ==
    /\ campaign.pc = "returned"
    /\ Len(campaign.results) = Len(Catalog)
    /\ campaign.results[1].threw
    /\ \A k \in 2..Len(Catalog) : ~campaign.results[k].threw
    /\ campaign.results[Len(Catalog)].success

\* C26: run_campaign runs its agents concurrently: when the call first
\* suspends, every agent that has a target assigned (target i goes to agent
\* i mod agent_count) has started its run, so that attacks of different agents
\* are in progress together.
C26_AgentsRunTogether ==
    [][(campaign.pc = "idle" /\ campaign'.pc = "attack") =>
          \A i \in 1..campaign'.ndev :
              AgentOf(i, campaign'.nagents) \in campaign'.started]_vars

\* C27: in the denial-of-service scenario the failure count is the number of
\* the 100 requests that ended in an exception or a timeout, and the scenario
\* is successful exactly when more than 50 of them did.
C27_DosCountsExceptionsAndTimeouts ==
    (Len(campaign.results) = Len(Catalog) /\ ~campaign.results[Len(Catalog)].threw) =>
        LET r == campaign.results[Len(Catalog)]
            ended == dos_responses.exception + dos_responses.none
        IN /\ r.failures = ended
           /\ r.impact = (ended * 100) \div ConcurrentRequests
           /\ r.success <=> ended > 50

ActiveLoops(d) == {l \in Loops : loops[d][l].pc # "none"}

\* C29: whenever the state of a device is RUNNING it has exactly one active
\* run loop, after any sequence of suspend() and resume() calls.
C29_OneLoopWhenRunning ==
    \A d \in Dev : state[d] = RUNNING => Cardinality(ActiveLoops(d)) = 1

\* C30: after terminate() a run loop that reaches its loop test exits; the
\* messages still in the queue are never processed (the queue of a TERMINATED
\* device only grows); and a caller awaiting a response from the device gets
\* the no-response outcome at its timeout, without an exception.
C30_NothingProcessedAfterTerminate ==
    [][\A d \in Dev :
          state[d] = TERMINATED =>
              /\ \A l \in Loops :
                    (loops[d][l].pc = "top" /\ loops'[d][l] # loops[d][l])
                        => loops'[d][l] = NoLoop
              /\ Len(message_queue'[d]) >= Len(message_queue[d])
              /\ \A c \in Callers :
                    (callers[c].dev = d /\ callers[c].pc = "waiting"
                        /\ callers'[c].pc # "waiting")
                    => callers'[c].pc = "returned" /\ callers'[c].res = NoResponse]_vars

\* C31: no running device is orphaned: a device with state RUNNING and an
\* active run loop is held in the orchestrator's registry, under every
\* interleaving of spawn_device, terminate_device and shutdown_all.
C31_NoRunningOrphan ==
    \A d \in Dev :
        (state[d] = RUNNING /\ ActiveLoops(d) # {}) => d \in Registered

\* C32: the two registries stay consistent: every agent in the spawner's
\* registry wraps a device that the orchestrator's registry holds and that is
\* not TERMINATED.
C32_AgentsWrapLiveDevices ==
    \A a \in ActiveAgents :
        agent[a].device \in Registered /\ state[agent[a].device] # TERMINATED


\* C33: the monitor never terminates the last live member of its pool: a step
\* of the monitor taken with a registered pool member leaves a registered
\* pool member, also when other members were terminated from outside.
C33_KeepsLastMember ==
    [][(MonitorStep /\ PoolMembers # {}) => PoolMembers' # {}]_vars


\* C34: the monitor exits once its pool is empty. A monitor asleep with no
\* registered member in its list (all terminated, or none spawned) reaches
\* the end of its task; the poll that finds the pool empty only ends the task,
\* with no spawn and no terminate; and an ended monitor takes no further step.
C34_MonitorExitsOnEmptyPool ==
    /\ (monitor.pc = "sleep" /\ PoolMembers = {}) ~> (monitor.pc = "done")
    /\ [][/\ (monitor.pc = "sleep" /\ MonitorStep /\ PoolMembers = {})
               => /\ monitor' = [monitor EXCEPT !.pc = "done"]
                  /\ UNCHANGED <<devVars, msgVars, orchVars, spawnerVars>>
          /\ monitor.pc = "done" => monitor' = monitor]_vars

\* The monitor has ended on a pool whose members were all terminated.
C34_Witness ==
    /\ monitor.pc = "done"
    /\ Len(monitor.list) > 0
    /\ total_terminated > 0


\* The terminate_agent calls made on agent a that have returned or raised.
EndedCalls(a) ==
    {c \in TerminateCalls :
        terminations[c].agent = a /\ terminations[c].pc \in {"true", "false", "raised"}}

\* C35: terminate_agent calls in flight together on one agent: none raises, at
\* most one returns true, and total_terminated counts one termination per agent
\* a call returned true for.
C35_OneTerminationPerAgent ==
    /\ \A c \in TerminateCalls : terminations[c].pc # "raised"
    /\ \A a \in Agents :
          Cardinality({c \in EndedCalls(a) : terminations[c].pc = "true"}) <= 1
    /\ total_terminated =
          Cardinality({a \in Agents : \E c \in EndedCalls(a) : terminations[c].pc = "true"})


\* C36: in every reachable state of a spawner, total_spawned minus
\* total_terminated is the number of agents in the spawner's registry.
C36_CountersMatchRegistry ==
    total_spawned - total_terminated = Cardinality(ActiveAgents)

\* Agents were spawned, one was terminated by a call that ran together with
\* another call on the same agent, and the registry still holds an agent.
C36_Witness ==
    /\ total_spawned >= 2
    /\ total_terminated >= 1
    /\ ActiveAgents # {}
    /\ \E c \in TerminateCalls : terminations[c].pc = "raised"


\* C37: the agents parallel_task_execution(role, tasks) distributes its tasks
\* over, those of a pool spawned on demand included, carry the role asked for.
C37_SpawnedForRole ==
    \A a \in pte.matching : agent[a].role = pte.role


\* The scenarios executed so far in the campaign, over all agents.
ScenariosExecuted ==
    IF campaign.pc = "returned" THEN campaign.total
    ELSE campaign.total + Len(campaign.results)

\* The lengths of the agents' own result lists, summed over the agents in S.
RECURSIVE ResultsRecorded(_)
ResultsRecorded(S) ==
    IF S = {} THEN 0
    ELSE LET a == CHOOSE x \in S : TRUE
         IN campaign.recorded[a] + ResultsRecorded(S \ {a})

\* C38: the agents' result lists are complete: every execute_scenario call has
\* appended one result to its agent's list, the failed result of a procedure
\* that raised included, so the lists together hold as many results as
\* scenarios were executed.
C38_ResultsComplete ==
    ResultsRecorded(RedAgents) = ScenariosExecuted


\* The elements of a queue.
MessagesOf(q) == {q[i] : i \in 1..Len(q)}

\* The message this step enqueues on device d, the new last element of its queue.
Enqueued(d, m) ==
    /\ Len(message_queue'[d]) = Len(message_queue[d]) + 1
    /\ m = message_queue'[d][Len(message_queue'[d])]

\* C39: an assign_task call on a known agent, whatever its task_params, logs
\* the description and enqueues exactly one message on the agent's device, of
\* type inference for an inference worker and command otherwise, with
\* expect_response set.
C39_TaskMessageByRole ==
    [][\A a \in Agents, p \in TaskParams :
          (spawned_agents[a] /\ AssignTaskWith(a, p)) =>
             /\ task_assignments'[a] = task_assignments[a] + 1
             /\ \E m \in MessagesOf(message_queue'[agent[a].device]) :
                   /\ Enqueued(agent[a].device, m)
                   /\ m.type = TaskMessageType(agent[a].role)
                   /\ m.expect_response
             /\ \A d \in Dev \ {agent[a].device} : message_queue'[d] = message_queue[d]]_vars

====
